---- MODULE Spec2Model ----
(***************************************************************************)
(* A model of the PuzzlePy constraint-grid engine: cells and their         *)
(* candidate sets (puzzles/puzzle.py), the Sudoku builder, the context     *)
(* iterators and the randomized generator fill() (puzzles/sudoku.py).      *)
(*                                                                         *)
(* Python values.  A Python str is a sequence of characters, a character   *)
(* being a TLA+ string of length one: '12' is <<"1", "2">>, '' is <<>>.    *)
(* A Python list is a sequence of its elements.  A cell's contents is a    *)
(* Python set of str.  Cells are named by their row-major position in      *)
(* Puzzle.matrix: matrix[r][c] is cell r * dimension + c + 1.              *)
(***************************************************************************)
EXTENDS Integers, Sequences, FiniteSets, TLC

VARIABLES
    build,      \* outcome of SudokuPuzzleBuilder(...): its arguments and status
    puzzle,     \* the SudokuPuzzle the builder holds (NoPuzzle if none)
    it,         \* one CellIterator object and what it has yielded so far
    op,         \* the last Cell operation applied and what it returned
    gen,        \* the call stack and locals of SudokuPuzzle.fill()
    sol         \* the position and locals of SudokuSolver.solve_puzzle()

vars == <<build, puzzle, it, op, gen, sol>>

----------------------------------------------------------------------------
(* Python values *)

\* The characters of the model, in code-point order (sorted() compares by it).
CharSeq == <<" ", "1", "2", "3", "4", "5", "6", "7", "8", "9", "a", "b", "x">>

Range(s) == {s[i] : i \in DOMAIN s}

Ord(c) == CHOOSE i \in DOMAIN CharSeq : CharSeq[i] = c

\* s < t for two Python str (lexicographic, by code point)
RECURSIVE StrLess(_, _)
StrLess(s, t) ==
    IF t = <<>> THEN FALSE
    ELSE IF s = <<>> THEN TRUE
    ELSE IF s[1] # t[1] THEN Ord(s[1]) < Ord(t[1])
    ELSE StrLess(Tail(s), Tail(t))

\* sorted(items) for a set of str
RECURSIVE Sorted(_)
Sorted(items) ==
    IF items = {} THEN <<>>
    ELSE LET least == CHOOSE x \in items : \A y \in items \ {x} : StrLess(x, y)
         IN  <<least>> \o Sorted(items \ {least})

\* ''.join(list of str)
RECURSIVE Join(_)
Join(list) == IF list = <<>> THEN <<>> ELSE Head(list) \o Join(Tail(list))

\* set(raw_value) for a str: the set of its characters, each a str
SetOfStr(raw_value) == {<<raw_value[i]>> : i \in DOMAIN raw_value}

\* set(raw_value) for a list: the set of its elements
SetOfList(raw_value) == Range(raw_value)

\* int(math.sqrt(n)) for n >= 0
IntSqrt(n) == CHOOSE k \in 0..n : k * k <= n /\ (k + 1) * (k + 1) > n

default_placeholder == <<" ">>

default_value_options ==
    <<(<<"1">>), (<<"2">>), (<<"3">>), (<<"4">>), (<<"5">>), (<<"6">>), (<<"7">>), (<<"8">>), (<<"9">>)>>

----------------------------------------------------------------------------
(* Cell (puzzle.py) and SudokuCell (sudoku.py).  A cell is a record; the   *)
(* operations return the cell after the call and the call's return value.  *)

Unset == 0      \* a link attribute that was never assigned

\* Cell.__len__
CellLen(cell) ==
    IF cell.contents = {cell.placeholder} THEN 0 ELSE Cardinality(cell.contents)

\* Cell.__str__
CellStr(cell) == Join(Sorted(cell.contents))

\* Cell.empty
Cell_empty(cell) == cell.contents = {cell.placeholder}

\* Cell.solved
Cell_solved(cell) ==
    IF cell.contents = {cell.placeholder} \/ Cardinality(cell.contents) > 1
    THEN FALSE ELSE TRUE

\* Cell.set, with the set(raw_value) it stores already taken
Cell_set(cell, new_contents) ==
    IF ~cell.immutable
    THEN [cell |-> [cell EXCEPT !.contents = new_contents], ret |-> TRUE]
    ELSE [cell |-> cell, ret |-> FALSE]

\* clear() without its test of the immutable flag
Cell_clear_any(cell) == [cell EXCEPT !.contents = {cell.placeholder}]

\* a clear() that leaves the cell as it is
Cell_not_cleared(cell) == cell

\* Cell.clear
Cell_clear(cell) ==
    IF ~cell.immutable THEN [cell EXCEPT !.contents = {cell.placeholder}] ELSE cell

\* a remove_all_but that discards every value, the keepers too
Cell_remove_all(cell, keepers) ==
    [cell |-> [cell EXCEPT !.contents = {}], ret |-> cell.contents # {}]

\* Cell.remove_all_but
Cell_remove_all_but(cell, keepers) ==
    LET temp == cell.contents
        gone == {value \in temp : value \notin keepers}
    IN  [cell |-> [cell EXCEPT !.contents = cell.contents \ gone],
         ret  |-> gone # {}]

\* remove_value reporting a change whenever the cell is mutable
Cell_remove_value_reports_attempt(cell, value) ==
    IF cell.immutable
    THEN [cell |-> cell, ret |-> FALSE]
    ELSE [cell |-> [cell EXCEPT !.contents = cell.contents \ {value}], ret |-> TRUE]

\* Cell.remove_value
Cell_remove_value(cell, value) ==
    IF cell.immutable
    THEN [cell |-> cell, ret |-> FALSE]
    ELSE LET before_length == Cardinality(cell.contents)
             after == cell.contents \ {value}
         IN  [cell |-> [cell EXCEPT !.contents = after],
              ret  |-> before_length # Cardinality(after)]

\* the loop of Cell.remove_values: discard each value of the list in turn
RECURSIVE DiscardAll(_, _)
DiscardAll(contents, values) ==
    IF values = <<>> THEN contents
    ELSE DiscardAll(contents \ {Head(values)}, Tail(values))

\* Cell.remove_values
Cell_remove_values(cell, values) ==
    IF cell.immutable
    THEN [cell |-> cell, ret |-> FALSE]
    ELSE LET before_length == Cardinality(cell.contents)
             after == DiscardAll(cell.contents, values)
         IN  [cell |-> [cell EXCEPT !.contents = after],
              ret  |-> before_length # Cardinality(after)]

\* SudokuCell.__init__ followed by Cell.__init__: the new cell, or the
\* exception raised.
NewCell(value, row_index, column_index, placeholder) ==
    IF Len(value) > 1 THEN [error |-> "CellExcept"]
    ELSE IF row_index < 0 \/ column_index < 0 THEN [error |-> "CellExcept"]
    ELSE LET is_blank == value = placeholder
         IN  [error |-> "none",
              cell |-> [contents   |-> IF is_blank THEN SetOfStr(placeholder)
                                                   ELSE SetOfStr(value),
                        immutable  |-> ~is_blank,
                        placeholder |-> placeholder,
                        row_number |-> row_index + 1,
                        column_number |-> column_index + 1,
                        box_number |-> Unset,
                        next_cell_in_row |-> Unset,
                        next_cell_in_column |-> Unset,
                        next_cell_in_box |-> Unset]]

----------------------------------------------------------------------------
(* SudokuPuzzle geometry and the builders (PuzzleBuilder in puzzle.py,     *)
(* SudokuPuzzleBuilder in sudoku.py).                                      *)

NoPuzzle == [dimension |-> 0, box_dimension |-> 0, all_value_options |-> <<>>,
             matrix |-> <<>>]

\* matrix[row_index][column_index]
At(dimension, row_index, column_index) == row_index * dimension + column_index + 1

RowIndex(dimension, i) == (i - 1) \div dimension

ColumnIndex(dimension, i) == (i - 1) % dimension

\* range(start, stop, step) for step > 0
PyRange(start, stop, step) ==
    {n \in start..(stop - 1) : (n - start) % step = 0}

\* validate_dimension without its test that the root is whole
validate_dimension_any_root(dimension) ==
    IF dimension < 0 THEN [error |-> "SudokuBuildError", value |-> 0]
    ELSE [error |-> "none", value |-> IntSqrt(dimension)]

\* SudokuPuzzleBuilder.validate_dimension: the square root, or the error
validate_dimension(dimension) ==
    IF dimension < 0 THEN [error |-> "SudokuBuildError", value |-> 0]
    ELSE LET root == IntSqrt(dimension)
         IN  IF root * root # dimension
             THEN [error |-> "SudokuBuildError", value |-> 0]
             ELSE [error |-> "none", value |-> root]

\* PuzzleBuilder.__init__, "Link all cells by row"
LinkRows(dimension, matrix) ==
    [i \in DOMAIN matrix |->
        [matrix[i] EXCEPT !.next_cell_in_row =
            IF ColumnIndex(dimension, i) < dimension - 1
            THEN At(dimension, RowIndex(dimension, i), ColumnIndex(dimension, i) + 1)
            ELSE At(dimension, RowIndex(dimension, i), 0)]]

\* PuzzleBuilder.__init__, "Link all cells by column"
LinkColumns(dimension, matrix) ==
    [i \in DOMAIN matrix |->
        [matrix[i] EXCEPT !.next_cell_in_column =
            IF RowIndex(dimension, i) < dimension - 1
            THEN At(dimension, RowIndex(dimension, i) + 1, ColumnIndex(dimension, i))
            ELSE At(dimension, 0, ColumnIndex(dimension, i))]]

\* SudokuPuzzleBuilder.__init__, first pass of the box wiring: every cell but
\* the last of its row is linked to its right neighbour.
LinkBoxRight(dimension, matrix) ==
    [i \in DOMAIN matrix |->
        IF ColumnIndex(dimension, i) \in 0..(dimension - 2)
        THEN [matrix[i] EXCEPT !.next_cell_in_box =
                At(dimension, RowIndex(dimension, i), ColumnIndex(dimension, i) + 1)]
        ELSE matrix[i]]

\* second pass: the cells on the right edge of a box, in every row but the
\* last, are linked to the leftmost box cell of the row below.
LinkBoxDown(dimension, box_dimension, matrix) ==
    LET box_offset == box_dimension - 1
    IN  [i \in DOMAIN matrix |->
            IF /\ RowIndex(dimension, i) \in 0..(dimension - 2)
               /\ ColumnIndex(dimension, i) \in PyRange(box_offset, dimension, box_dimension)
            THEN [matrix[i] EXCEPT !.next_cell_in_box =
                    At(dimension, RowIndex(dimension, i) + 1,
                       ColumnIndex(dimension, i) - box_offset)]
            ELSE matrix[i]]

\* third pass: the last cell of a box is linked back to the box's first cell.
LinkBoxClose(dimension, box_dimension, matrix) ==
    LET box_offset == box_dimension - 1
    IN  [i \in DOMAIN matrix |->
            IF /\ RowIndex(dimension, i) \in PyRange(box_offset, dimension, box_dimension)
               /\ ColumnIndex(dimension, i) \in PyRange(box_offset, dimension, box_dimension)
            THEN [matrix[i] EXCEPT !.next_cell_in_box =
                    At(dimension, RowIndex(dimension, i) - box_offset,
                       ColumnIndex(dimension, i) - box_offset)]
            ELSE matrix[i]]

\* "Set each cell's box number"
SetBoxNumbers(dimension, box_dimension, matrix) ==
    [i \in DOMAIN matrix |->
        [matrix[i] EXCEPT !.box_number =
            box_dimension * (RowIndex(dimension, i) \div box_dimension)
            + (ColumnIndex(dimension, i) \div box_dimension) + 1]]

\* PuzzleBuilder.__init__: the checks on the placeholder, the cells and the
\* row and column links.  values is a list of str, or <<>> standing for None
\* when has_values is FALSE.
PuzzleBuilderInit(dimension, has_values, values, all_possible_values, placeholder) ==
    IF placeholder \in Range(all_possible_values) THEN [error |-> "BuildError", matrix |-> <<>>]
    ELSE IF Len(placeholder) # 1 THEN [error |-> "BuildError", matrix |-> <<>>]
    ELSE LET made == [i \in 1..(dimension * dimension) |->
                        NewCell(IF has_values THEN values[i] ELSE placeholder,
                                RowIndex(dimension, i), ColumnIndex(dimension, i),
                                placeholder)]
         IN  IF \E i \in DOMAIN made : made[i].error # "none"
             THEN [error |-> "BuildError", matrix |-> <<>>]
             ELSE [error |-> "none",
                   matrix |-> LinkColumns(dimension,
                                LinkRows(dimension, [i \in DOMAIN made |-> made[i].cell]))]

\* SudokuPuzzleBuilder.__init__ from the point where dimension and
\* all_possible_values are settled: SudokuPuzzle(...), the base builder, the
\* three passes of box wiring and the box numbers.
BuildPuzzle(dimension, has_values, values, all_possible_values, placeholder) ==
    IF dimension < 1      \* Puzzle.__init__ raises PuzzleExcept
    THEN [status |-> "SudokuBuildError", puzzle |-> NoPuzzle]
    ELSE LET box_dimension == IntSqrt(dimension)
             base == PuzzleBuilderInit(dimension, has_values, values,
                                       all_possible_values, placeholder)
         IN  IF base.error # "none"
             THEN [status |-> "SudokuBuildError", puzzle |-> NoPuzzle]
             ELSE [status |-> "ok",
                   puzzle |->
                     [dimension |-> dimension,
                      box_dimension |-> box_dimension,
                      all_value_options |-> all_possible_values,
                      matrix |->
                        SetBoxNumbers(dimension, box_dimension,
                          LinkBoxClose(dimension, box_dimension,
                            LinkBoxDown(dimension, box_dimension,
                              LinkBoxRight(dimension, base.matrix))))]]

\* list(all_possible_values_set): the elements of starting_values other than
\* the placeholder.  Python leaves the order of the list open; nothing
\* modelled here reads it (fill() shuffles the list, the solver turns it back
\* into a set), so the sorted order stands for all of them.
ValuesOf(elems, placeholder) ==
    Sorted({elems[i].val : i \in DOMAIN elems} \ {placeholder})

\* SudokuPuzzleBuilder.__init__.  starting_values is [kind, elems] with kind
\* "None", "list" or "other" (any value that is not a list); an element of
\* elems is [is_str, val].
SudokuPuzzleBuilder(starting_values, dimension, all_possible_values, placeholder) ==
    IF starting_values.kind # "None"
    THEN IF starting_values.kind # "list"
         THEN [status |-> "SudokuBuildError", puzzle |-> NoPuzzle]
         ELSE LET elems == starting_values.elems
                  size == validate_dimension(Len(elems))
              IN  IF size.error # "none"
                  THEN [status |-> "SudokuBuildError", puzzle |-> NoPuzzle]
                  ELSE IF Len(placeholder) # 1
                  THEN [status |-> "SudokuBuildError", puzzle |-> NoPuzzle]
                  ELSE IF \E i \in DOMAIN elems :
                            ~elems[i].is_str \/ Len(elems[i].val) # 1
                  THEN [status |-> "SudokuBuildError", puzzle |-> NoPuzzle]
                  ELSE BuildPuzzle(size.value, TRUE,
                                   [i \in DOMAIN elems |-> elems[i].val],
                                   ValuesOf(elems, placeholder), placeholder)
    ELSE IF validate_dimension(dimension).error # "none"
         THEN [status |-> "SudokuBuildError", puzzle |-> NoPuzzle]
         ELSE IF dimension # Len(all_possible_values)
         THEN [status |-> "SudokuBuildError", puzzle |-> NoPuzzle]
         ELSE BuildPuzzle(dimension, FALSE, <<>>, all_possible_values, placeholder)

----------------------------------------------------------------------------
(* Context iterators: CellIterator, RowIterator, ColumnIterator (puzzle.py)*)
(* and BoxIterator (sudoku.py).                                            *)

\* the link an iterator of the given context follows out of a cell
NextCell(matrix, context, cell) ==
    CASE context = "ROW"    -> matrix[cell].next_cell_in_row
      [] context = "COLUMN" -> matrix[cell].next_cell_in_column
      [] context = "BOX"    -> matrix[cell].next_cell_in_box

\* CellIterator.__init__
NewIterator(cell, context) ==
    [context |-> context, first_cell |-> cell, next_cell |-> cell, stop |-> FALSE]

\* RowIterator / ColumnIterator / BoxIterator.__next__: the iterator after
\* the call, the cell returned (Unset if none) and the exception raised.
IteratorNext(matrix, iter) ==
    IF iter.stop
    THEN [iter |-> iter, cell |-> Unset, raised |-> "StopIteration"]
    ELSE LET cell == iter.next_cell
             following == NextCell(matrix, iter.context, cell)
         IN  IF following = Unset
             THEN [iter |-> iter, cell |-> Unset, raised |-> "AttributeError"]
             ELSE [iter |-> [iter EXCEPT !.next_cell = following,
                                         !.stop = (following = iter.first_cell)],
                   cell |-> cell, raised |-> "none"]

\* "for cell in iter": the cells yielded, in order, and how the loop ended
\* ("StopIteration" is the normal end).  fuel bounds the walk of a chain that
\* never comes back to its first cell.
RECURSIVE Drain(_, _, _, _)
Drain(matrix, iter, yielded, fuel) ==
    LET step == IteratorNext(matrix, iter)
    IN  IF step.raised # "none" THEN [cells |-> yielded, raised |-> step.raised]
        ELSE IF fuel = 0 THEN [cells |-> yielded, raised |-> "Endless"]
        ELSE Drain(matrix, step.iter, Append(yielded, step.cell), fuel - 1)

\* the cells of a context, in iteration order from the given first cell
ContextCells(matrix, first_cell, context) ==
    Drain(matrix, NewIterator(first_cell, context), <<>>, Len(matrix))

\* Puzzle.get_first_cell_in_row
get_first_cell_in_row(pz, row_number) == At(pz.dimension, row_number - 1, 0)

\* Puzzle.get_first_cell_in_column
get_first_cell_in_column(pz, column_number) == At(pz.dimension, 0, column_number - 1)

\* SudokuPuzzle.get_first_cell_in_box
get_first_cell_in_box(pz, box_number) ==
    LET puzzle_row == ((box_number - 1) \div pz.box_dimension) * pz.box_dimension
        puzzle_column == ((box_number - 1) * pz.box_dimension) % pz.dimension
    IN  At(pz.dimension, puzzle_row, puzzle_column)

\* SudokuPuzzle.get_context_iterator, drained: the cells of context `number`
get_context_iterator(pz, context_type, number) ==
    CASE context_type = "ROW" ->
            ContextCells(pz.matrix, get_first_cell_in_row(pz, number), "ROW")
      [] context_type = "COLUMN" ->
            ContextCells(pz.matrix, get_first_cell_in_column(pz, number), "COLUMN")
      [] context_type = "BOX" ->
            ContextCells(pz.matrix, get_first_cell_in_box(pz, number), "BOX")

\* SudokuPuzzle.unsolved_cell_count
unsolved_cell_count(pz) ==
    Cardinality({i \in DOMAIN pz.matrix : ~Cell_solved(pz.matrix[i])})

ContextTypes == {"ROW", "COLUMN", "BOX"}

----------------------------------------------------------------------------
(* Arguments the builder is called with. *)

None == [kind |-> "None", elems |-> <<>>]

\* a value that is not a list (a tuple, a str)
NotAList == [kind |-> "other", elems |-> <<>>]

\* a list element that is a str
StrElem(s) == [is_str |-> TRUE, val |-> s]

\* a list element that is itself a list
ListElem == [is_str |-> FALSE, val |-> <<>>]

\* the flat list of one-character strings spelled by chars
Flat(chars) == [kind |-> "list", elems |-> [i \in DOMAIN chars |-> StrElem(<<chars[i]>>)]]

\* the first n values of default_value_options
FirstValues(n) == SubSeq(default_value_options, 1, n)

Args(starting_values, dimension, all_possible_values, placeholder) ==
    [starting_values |-> starting_values, dimension |-> dimension,
     all_possible_values |-> all_possible_values, placeholder |-> placeholder]

NoArgs == Args(None, 0, <<>>, <<>>)

\* calls without starting_values
DimensionCalls ==
    {Args(None, d, FirstValues(n), p) :
        d \in {-1, 0, 1, 2, 4, 5, 7, 9},
        n \in {0, 1, 2, 4, 5, 9},
        p \in {<<" ">>, <<>>, <<"a", "b">>, <<"1">>, <<"x">>}}

StartingLists ==
    { NotAList,
      [kind |-> "list", elems |-> <<ListElem, ListElem, ListElem, ListElem>>],
      [kind |-> "list", elems |-> <<StrElem(<<"1">>), StrElem(<<"1", "2">>),
                                    StrElem(<<" ">>), StrElem(<<" ">>)>>],
      [kind |-> "list", elems |-> <<StrElem(<<>>)>>],
      Flat(<<>>),
      Flat(<<"1">>),
      Flat(<<" ">>),
      Flat(<<"1", " ">>),
      Flat(<<"1", " ", "2">>),
      Flat(<<"1", " ", " ", " ">>),
      Flat(<<"1", "x", "x", "2">>),
      Flat(<<"1", " ", " ", " ", " ", " ", " ", " ", " ">>),
      Flat(<<"1", " ", " ", " ",  " ", " ", "2", " ",
             " ", "3", " ", " ",  " ", " ", " ", "4">>),
      Flat(<<"1", "2", "3", " ",  " ", " ", " ", " ",
             " ", " ", " ", " ",  " ", " ", " ", " ">>),
      Flat(<<" ", " ", " ", " ",  " ", " ", " ", " ",
             " ", " ", " ", " ",  " ", " ", " ", " ">>),
      Flat(<<" ", " ", " ", " ", " ",  " ", " ", " ", " ", " ",
             " ", " ", "1", " ", " ",  " ", " ", " ", " ", " ",
             " ", " ", " ", " ", " ">>) }

\* calls with starting_values (dimension and all_possible_values at their
\* defaults: the builder ignores them)
StartingCalls ==
    {Args(sv, 9, default_value_options, p) :
        sv \in StartingLists,
        p \in {<<" ">>, <<"x">>, <<>>, <<"a", "b">>}}

BuilderCalls == DimensionCalls \cup StartingCalls

Built(args) ==
    SudokuPuzzleBuilder(args.starting_values, args.dimension,
                        args.all_possible_values, args.placeholder)

----------------------------------------------------------------------------
(* The builder and one iterator over the grid it built. *)

MaxStops == 2       \* calls of __next__ made on an exhausted iterator

NoIterator ==
    [active |-> FALSE, iter |-> NewIterator(Unset, "ROW"), yielded |-> <<>>,
     raised |-> "none", stops |-> 0]

NoOp ==
    [name |-> "none", cell |-> 0, arg |-> <<>>, before |-> <<>>, ret |-> FALSE,
     raised |-> "none", calls |-> 0]

NoGen ==
    [pc |-> "idle", rand_vals |-> <<>>, attempt |-> 0, val |-> 0, box_num |-> 0,
     stack |-> <<>>, status |-> "none", backup_count |-> 0]

NoSol ==
    [pc |-> "idle", context |-> "NONE", number |-> 0, change_made |-> FALSE,
     overall_change_made |-> FALSE, raised |-> "none",
     last |-> [name |-> "none", context |-> "NONE", number |-> 0, ret |-> "None"],
     solutions |-> {}]

InitBuild ==
    /\ build = [status |-> "none", args |-> NoArgs]
    /\ puzzle = NoPuzzle
    /\ it = NoIterator
    /\ op = NoOp
    /\ gen = NoGen
    /\ sol = NoSol

\* builder = SudokuPuzzleBuilder(...); builder.get_puzzle()
Build(args) ==
    /\ build.status = "none"
    /\ build' = [status |-> Built(args).status, args |-> args]
    /\ puzzle' = Built(args).puzzle
    /\ UNCHANGED <<it, op, gen, sol>>

\* cell.row_iter() / cell.column_iter() / cell.box_iter() on a cell of the grid
StartIterator(cell, context) ==
    /\ build.status = "ok"
    /\ ~it.active
    /\ it' = [active |-> TRUE, iter |-> NewIterator(cell, context),
              yielded |-> <<>>, raised |-> "none", stops |-> 0]
    /\ UNCHANGED <<build, puzzle, op, gen, sol>>

\* next(iterator)
Advance ==
    /\ it.active
    /\ it.raised # "AttributeError"
    /\ it.stops < MaxStops
    /\ LET step == IteratorNext(puzzle.matrix, it.iter)
       IN  it' = [it EXCEPT !.iter = step.iter,
                            !.yielded = IF step.raised = "none"
                                        THEN Append(@, step.cell) ELSE @,
                            !.raised = step.raised,
                            !.stops = IF step.raised = "StopIteration"
                                      THEN @ + 1 ELSE @]
    /\ UNCHANGED <<build, puzzle, op, gen, sol>>

NextBuild ==
    \/ \E args \in BuilderCalls : Build(args)
    \/ \E cell \in DOMAIN puzzle.matrix, context \in ContextTypes :
            StartIterator(cell, context)
    \/ Advance

SpecBuild == InitBuild /\ [][NextBuild]_vars

----------------------------------------------------------------------------
(* Cell operations applied, in any order, to the cells of a small grid. *)

\* grids the operations are applied to: one empty cell, one clue cell, and
\* the two-by-two grid the builder returns for a list of four values
CellGrids ==
    { Args(None, 1, FirstValues(1), <<" ">>),
      Args(Flat(<<"1">>), 9, default_value_options, <<" ">>),
      Args(Flat(<<"1", " ", " ", "2">>), 9, default_value_options, <<" ">>) }

\* str arguments of Cell.set
SetArgs == {<<"1">>, <<"2">>, <<"1", "2">>, <<" ">>}

\* arguments of remove_value
ValueArgs == {<<"1">>, <<"2">>, <<" ">>}

\* list arguments of remove_values
ValuesArgs ==
    {<<>>, <<(<<"1">>)>>, <<(<<"2">>)>>, <<(<<"1">>), (<<"2">>)>>,
     <<(<<"1">>), (<<"1">>)>>, <<(<<" ">>), (<<"2">>)>>}

\* set arguments of remove_all_but
KeeperArgs == SUBSET ValueArgs

InitCell ==
    /\ \E args \in CellGrids :
          /\ build = [status |-> Built(args).status, args |-> args]
          /\ puzzle = Built(args).puzzle
    /\ it = NoIterator
    /\ op = NoOp
    /\ gen = NoGen
    /\ sol = NoSol

Applied(name, cell, arg, result_cell, ret) ==
    /\ puzzle' = [puzzle EXCEPT !.matrix[cell] = result_cell]
    /\ op' = [name |-> name, cell |-> cell, arg |-> arg,
              before |-> puzzle.matrix[cell].contents, ret |-> ret,
              raised |-> "none", calls |-> 0]
    /\ UNCHANGED <<build, it, gen, sol>>

DoSet(cell, raw_value) ==
    LET r == Cell_set(puzzle.matrix[cell], SetOfStr(raw_value))
    IN  Applied("set", cell, raw_value, r.cell, r.ret)

DoClear(cell) ==
    Applied("clear", cell, <<>>, Cell_clear(puzzle.matrix[cell]), FALSE)

DoRemoveValue(cell, value) ==
    LET r == Cell_remove_value(puzzle.matrix[cell], value)
    IN  Applied("remove_value", cell, value, r.cell, r.ret)

DoRemoveValues(cell, values) ==
    LET r == Cell_remove_values(puzzle.matrix[cell], values)
    IN  Applied("remove_values", cell, values, r.cell, r.ret)

DoRemoveAllBut(cell, keepers) ==
    LET r == Cell_remove_all_but(puzzle.matrix[cell], keepers)
    IN  Applied("remove_all_but", cell, keepers, r.cell, r.ret)

NextCellOps ==
    \/ \E cell \in DOMAIN puzzle.matrix, raw_value \in SetArgs : DoSet(cell, raw_value)
    \/ \E cell \in DOMAIN puzzle.matrix : DoClear(cell)
    \/ \E cell \in DOMAIN puzzle.matrix, value \in ValueArgs : DoRemoveValue(cell, value)
    \/ \E cell \in DOMAIN puzzle.matrix, values \in ValuesArgs : DoRemoveValues(cell, values)
    \/ \E cell \in DOMAIN puzzle.matrix, keepers \in KeeperArgs : DoRemoveAllBut(cell, keepers)

SpecCell == InitCell /\ [][NextCellOps]_vars

----------------------------------------------------------------------------
(* The generator: SudokuPuzzle.fill, place_value and eligible_box_cells.   *)
(* place_value is recursive; gen.stack holds the frames of its pending     *)
(* calls, innermost last, each with the contents the cells had when the    *)
(* call started.                                                           *)

\* the candidate sets of the cells
Contents(matrix) == [i \in DOMAIN matrix |-> matrix[i].contents]

\* Cell.value_in_context: is value in some cell the iterator yields
value_in_context(matrix, cell, context, value) ==
    \E k \in Range(ContextCells(matrix, cell, context).cells) :
        value \in matrix[k].contents

\* a first loop of eligible_box_cells that does not look for the value in
\* the box: it collects the empty cells
ScanBox_open_only(matrix, cells, value, open_cells) ==
    [found |-> Unset,
     open_cells |-> open_cells \cup {c \in Range(cells) : Cell_empty(matrix[c])}]

\* the first loop of eligible_box_cells over the cells of the box, in
\* iteration order: it returns at the first cell holding the value, and
\* otherwise collects the empty cells.
RECURSIVE ScanBox(_, _, _, _)
ScanBox(matrix, cells, value, open_cells) ==
    IF cells = <<>> THEN [found |-> Unset, open_cells |-> open_cells]
    ELSE IF value \in matrix[Head(cells)].contents
    THEN [found |-> Head(cells), open_cells |-> {}]
    ELSE ScanBox(matrix, Tail(cells), value,
                 IF Cell_empty(matrix[Head(cells)])
                 THEN open_cells \cup {Head(cells)} ELSE open_cells)

\* eligible_box_cells without its test of the cell's column
eligible_box_cells_rows_only(pz, box_num, value) ==
    LET box == get_context_iterator(pz, "BOX", box_num)
        scan == ScanBox(pz.matrix, box.cells, value, {})
    IN  IF box.raised # "StopIteration"
        THEN [raised |-> "PuzzleExcept", cells |-> {}, holds_value |-> FALSE]
        ELSE IF scan.found # Unset
        THEN [raised |-> "none", cells |-> {scan.found}, holds_value |-> TRUE]
        ELSE [raised |-> "none",
              cells |-> {c \in scan.open_cells :
                            ~value_in_context(pz.matrix, c, "ROW", value)},
              holds_value |-> FALSE]

\* SudokuPuzzle.eligible_box_cells: the list returned (as the set of its
\* cells; place_value reads only its length and its random order) and whether
\* it is the single cell already holding the value.
eligible_box_cells(pz, box_num, value) ==
    LET box == get_context_iterator(pz, "BOX", box_num)
        scan == ScanBox(pz.matrix, box.cells, value, {})
    IN  IF box.raised # "StopIteration"
        THEN [raised |-> "PuzzleExcept", cells |-> {}, holds_value |-> FALSE]
        ELSE IF scan.found # Unset
        THEN [raised |-> "none", cells |-> {scan.found}, holds_value |-> TRUE]
        ELSE [raised |-> "none",
              cells |-> {c \in scan.open_cells :
                            /\ ~value_in_context(pz.matrix, c, "ROW", value)
                            /\ ~value_in_context(pz.matrix, c, "COLUMN", value)},
              holds_value |-> FALSE]

\* a get_backup_count that takes no account of the box-row
get_backup_count_one(pz, box_num) == 1

\* the lambda get_backup_count of place_value
get_backup_count(pz, box_num) ==
    IF box_num % pz.box_dimension = 1 THEN pz.box_dimension ELSE 1

\* a clear() that leaves every cell as it is
Puzzle_not_cleared(pz) == pz

\* Puzzle.clear
Puzzle_clear(pz) ==
    [pz EXCEPT !.matrix = [i \in DOMAIN pz.matrix |-> Cell_clear(pz.matrix[i])]]

\* random.shuffle(list): every order of the list
Shuffles(list) ==
    {[i \in DOMAIN list |-> list[perm[i]]] : perm \in Permutations(DOMAIN list)}

MaxAttempts == 2    \* attempts fill() makes; the code makes 999 (range(1, 1000))

ReadyGen ==
    [pc |-> "start", rand_vals |-> <<>>, attempt |-> 0, val |-> 0, box_num |-> 0,
     stack |-> <<>>, status |-> "none", backup_count |-> 0]

\* grids fill() is called on
FillGrids ==
    { \* an empty 4 x 4 grid
      Args(None, 4, FirstValues(4), <<" ">>),
      \* an empty 1 x 1 grid and a 1 x 1 grid with its clue
      Args(None, 1, FirstValues(1), <<" ">>),
      Args(Flat(<<"1">>), 9, default_value_options, <<" ">>),
      \* consistent clues, one of each value
      Args(Flat(<<"1", " ", " ", " ",  " ", "4", " ", " ",
                  "2", " ", " ", " ",  " ", "3", " ", " ">>),
           9, default_value_options, <<" ">>),
      \* consistent clues that leave no cell of box 1 for the value 4
      Args(Flat(<<"1", "2", " ", " ",  "3", " ", " ", "4",
                  " ", " ", " ", " ",  " ", " ", " ", " ">>),
           9, default_value_options, <<" ">>),
      \* a single clue
      Args(Flat(<<"1", " ", " ", " ",  " ", " ", " ", " ",
                  " ", " ", " ", " ",  " ", " ", " ", " ">>),
           9, default_value_options, <<" ">>),
      \* clues with the value 1 twice in the first row
      Args(Flat(<<"1", "2", "1", " ",  " ", " ", " ", " ",
                  " ", " ", " ", " ",  " ", " ", " ", " ">>),
           9, default_value_options, <<" ">>),
      \* no clue at all: the list of value options is empty
      Args(Flat(<<" ", " ", " ", " ",  " ", " ", " ", " ",
                  " ", " ", " ", " ",  " ", " ", " ", " ">>),
           9, default_value_options, <<" ">>) }

InitFill ==
    /\ \E args \in FillGrids :
          /\ build = [status |-> Built(args).status, args |-> args]
          /\ puzzle = Built(args).puzzle
    /\ it = NoIterator
    /\ op = NoOp
    /\ gen = ReadyGen
    /\ sol = NoSol

\* the value place_value is placing
Value == gen.rand_vals[gen.val]

Returning(status, backup_count, stack) ==
    [gen EXCEPT !.pc = "ret", !.status = status, !.backup_count = backup_count,
                !.stack = stack]

\* fill(): rand_vals = self.all_value_options; random.shuffle(rand_vals).
\* With no value to place, the loops end without binding status and the read
\* of it raises, which fill() turns into PuzzleExcept.
Shuffle ==
    /\ gen.pc = "start"
    /\ \E rand_vals \in Shuffles(puzzle.all_value_options) :
          /\ puzzle' = [puzzle EXCEPT !.all_value_options = rand_vals]
          /\ gen' = IF rand_vals = <<>>
                    THEN [gen EXCEPT !.pc = "done", !.status = "PuzzleExcept"]
                    ELSE [gen EXCEPT !.pc = "call", !.rand_vals = rand_vals,
                                     !.attempt = 1, !.val = 1, !.box_num = 1]
    /\ UNCHANGED <<build, it, op, sol>>

\* place_value(value, box_num) up to its loop over the eligible cells
PlaceValue ==
    /\ gen.pc = "call"
    /\ LET eligible_cells == eligible_box_cells(puzzle, gen.box_num, Value)
       IN  gen' =
             IF eligible_cells.raised # "none"
             THEN [gen EXCEPT !.pc = "done", !.status = "PuzzleExcept"]
             ELSE IF eligible_cells.cells = {}
             THEN Returning("FAILED", get_backup_count(puzzle, gen.box_num), gen.stack)
             ELSE IF eligible_cells.holds_value
             THEN IF gen.box_num = puzzle.dimension
                  THEN Returning("PASSED", 0, gen.stack)
                  ELSE [gen EXCEPT !.box_num = @ + 1,
                                   !.stack = Append(@, [kind |-> "given",
                                                        box_num |-> gen.box_num,
                                                        cells |-> {}, cell |-> Unset,
                                                        before |-> Contents(puzzle.matrix)])]
             ELSE [gen EXCEPT !.pc = "loop",
                              !.stack = Append(@, [kind |-> "loop",
                                                   box_num |-> gen.box_num,
                                                   cells |-> eligible_cells.cells,
                                                   cell |-> Unset,
                                                   before |-> Contents(puzzle.matrix)])]
    /\ UNCHANGED <<build, puzzle, it, op, sol>>

\* one turn of the loop over rand_eligible_cells: the value is set in the
\* next cell of the random order (any cell not yet tried) and either this was
\* the last box or place_value is called for the next one.
TryCell ==
    /\ gen.pc = "loop"
    /\ LET top == Len(gen.stack)
           frame == gen.stack[top]
       IN  \E cell \in frame.cells :
              /\ puzzle' = [puzzle EXCEPT !.matrix[cell] =
                                Cell_set(puzzle.matrix[cell], SetOfStr(Value)).cell]
              /\ gen' = IF frame.box_num = puzzle.dimension
                        THEN Returning("PASSED", 0, SubSeq(gen.stack, 1, top - 1))
                        ELSE [gen EXCEPT !.pc = "call", !.box_num = frame.box_num + 1,
                                         !.stack[top].cell = cell]
    /\ UNCHANGED <<build, it, op, sol>>

\* place_value resumes in the caller after the call for the next box returned
Resume ==
    /\ gen.pc = "ret"
    /\ gen.stack # <<>>
    /\ LET top == Len(gen.stack)
           frame == gen.stack[top]
           below == SubSeq(gen.stack, 1, top - 1)
           backup_count == gen.backup_count - 1
       IN  IF frame.kind = "given"
           THEN /\ gen' = Returning(gen.status,
                                    IF backup_count = 0
                                    THEN get_backup_count(puzzle, frame.box_num)
                                    ELSE backup_count,
                                    below)
                /\ puzzle' = puzzle
           ELSE IF gen.status = "PASSED"
           THEN /\ gen' = Returning("PASSED", 0, below)
                /\ puzzle' = puzzle
           ELSE /\ puzzle' = [puzzle EXCEPT !.matrix[frame.cell] = Cell_clear(@)]
                /\ gen' =
                     IF backup_count # 0 /\ frame.box_num # 1
                     THEN Returning("FAILED", backup_count, below)
                     ELSE IF frame.cells \ {frame.cell} # {}
                     THEN [gen EXCEPT !.pc = "loop", !.backup_count = backup_count,
                                      !.stack[top].cells = @ \ {frame.cell},
                                      !.stack[top].cell = Unset]
                     ELSE Returning("FAILED", get_backup_count(puzzle, frame.box_num),
                                    below)
    /\ UNCHANGED <<build, it, op, sol>>

\* fill() resumes after place_value(val, 1) returned
FillResume ==
    /\ gen.pc = "ret"
    /\ gen.stack = <<>>
    /\ IF gen.status = "PASSED"
       THEN /\ puzzle' = puzzle
            /\ gen' = IF gen.val < Len(gen.rand_vals)
                      THEN [gen EXCEPT !.pc = "call", !.val = @ + 1, !.box_num = 1]
                      ELSE [gen EXCEPT !.pc = "done"]
       ELSE /\ puzzle' = Puzzle_clear(puzzle)
            /\ gen' = IF gen.attempt < MaxAttempts
                      THEN [gen EXCEPT !.pc = "call", !.attempt = @ + 1, !.val = 1,
                                       !.box_num = 1]
                      ELSE [gen EXCEPT !.pc = "done"]
    /\ UNCHANGED <<build, it, op, sol>>

NextFill == Shuffle \/ PlaceValue \/ TryCell \/ Resume \/ FillResume

SpecFill == InitFill /\ [][NextFill]_vars

----------------------------------------------------------------------------
(* The solver: SudokuSolver.solve_puzzle and the stages of SudokuPuzzle it *)
(* calls.  The grids it is run on have a perfect-square dimension, so the  *)
(* context iterators end normally and only their cells are read.  A stage  *)
(* works on st = [matrix, raised]: the cells and the exception raised so   *)
(* far ("none" while none was); once one is raised nothing more is done.   *)

RECURSIVE Cell_remove_value_from_context(_, _, _)
RECURSIVE remove_value_from_view(_, _)
RECURSIVE RemoveFromRest(_, _, _)

\* the loop of Cell.remove_value_from_context over the cells after self
RemoveFromRest(st, self, rest) ==
    IF rest = <<>> \/ st.raised # "none" THEN st
    ELSE LET k == Head(rest)
         IN  IF CellLen(st.matrix[k]) = 1
             THEN RemoveFromRest(st, self, Tail(rest))
             ELSE LET removed == Cell_remove_value(st.matrix[k],
                                                   CellStr(st.matrix[self])).cell
                      st1 == [st EXCEPT !.matrix[k] = removed]
                  IN  RemoveFromRest(IF CellLen(removed) = 1
                                     THEN remove_value_from_view(st1, k) ELSE st1,
                                     self, Tail(rest))

\* Cell.remove_value_from_context, called with a fresh iterator of self
Cell_remove_value_from_context(st, self, context) ==
    IF st.raised # "none" THEN st
    ELSE IF Cardinality(st.matrix[self].contents) # 1
    THEN [st EXCEPT !.raised = "CellExcept"]
    ELSE RemoveFromRest(st, self, Tail(ContextCells(st.matrix, self, context).cells))

\* SudokuCell.remove_value_from_view
remove_value_from_view(st, self) ==
    Cell_remove_value_from_context(
        Cell_remove_value_from_context(
            Cell_remove_value_from_context(st, self, "ROW"),
            self, "COLUMN"),
        self, "BOX")

\* the inner loop of fill_empty_cells_with_options, over the cells of a row
RECURSIVE FillRow(_, _, _)
FillRow(matrix, cells, all_value_options) ==
    IF cells = <<>> THEN matrix
    ELSE LET k == Head(cells)
         IN  FillRow(IF Cell_empty(matrix[k])
                     THEN [matrix EXCEPT ![k] =
                              Cell_set(@, SetOfList(all_value_options)).cell]
                     ELSE matrix,
                     Tail(cells), all_value_options)

\* SudokuPuzzle.fill_empty_cells_with_options, from row `row` on
RECURSIVE FillRows(_, _, _)
FillRows(pz, matrix, row) ==
    IF row > pz.dimension THEN matrix
    ELSE FillRows(pz,
                  FillRow(matrix,
                          ContextCells(matrix, get_first_cell_in_row(pz, row), "ROW").cells,
                          pz.all_value_options),
                  row + 1)

fill_empty_cells_with_options(pz) == [pz EXCEPT !.matrix = FillRows(pz, @, 1)]

\* the inner loop of normalize, over the cells of a row
RECURSIVE NormalizeCells(_, _)
NormalizeCells(st, cells) ==
    IF cells = <<>> \/ st.raised # "none" THEN st
    ELSE NormalizeCells(IF CellLen(st.matrix[Head(cells)]) = 1
                        THEN remove_value_from_view(st, Head(cells)) ELSE st,
                        Tail(cells))

\* one turn of the loop of SudokuPuzzle.normalize: the cells of row `row`
NormalizeRow(pz, row) ==
    NormalizeCells([matrix |-> pz.matrix, raised |-> "none"],
                   ContextCells(pz.matrix, get_first_cell_in_row(pz, row), "ROW").cells)

\* SudokuPuzzle.cells_per_value_dict over the cells an iterator yields: the
\* dict returned (value -> cells holding it), or None after the exception a
\* value that is no key of empty_options_dict causes.
cells_per_value_dict(pz, matrix, cells, min_size, max_size) ==
    LET keys == Range(pz.all_value_options)
        held == {k \in Range(cells) : ~Cell_empty(matrix[k])}
        options_dict == [value \in keys |-> {k \in held : value \in matrix[k].contents}]
        kept == IF min_size # 1 \/ max_size # 9
                THEN {value \in keys : /\ Cardinality(options_dict[value]) >= min_size
                                       /\ Cardinality(options_dict[value]) <= max_size}
                ELSE keys
    IN  IF \E k \in held : ~(matrix[k].contents \subseteq keys)
        THEN [is_none |-> TRUE, dict |-> <<>>]
        ELSE [is_none |-> FALSE, dict |-> [value \in kept |-> options_dict[value]]]

\* a Python bool as a return value ("None" when a call returns nothing)
Ret(b) == IF b THEN "True" ELSE "False"

\* the truth value of a return value
Truthy(ret) == ret = "True"

\* the puzzle with the cells of st
WithMatrix(pz, matrix) == [pz EXCEPT !.matrix = matrix]

\* cell._set_immutable(state) for each cell of cells
SetImmutable(st, cells, state) ==
    [st EXCEPT !.matrix = [k \in DOMAIN st.matrix |->
                              IF k \in cells
                              THEN [st.matrix[k] EXCEPT !.immutable = state]
                              ELSE st.matrix[k]]]

\* the loop of resolve_uniques_in_context over the items of the dict, in key
\* order; every value of the dict is a set of one cell (max_size = 1)
RECURSIVE ResolveItems(_, _, _, _)
ResolveItems(st, dict, keys, change_made) ==
    IF keys = <<>> \/ st.raised # "none"
    THEN [st |-> st, change_made |-> change_made]
    ELSE LET key == Head(keys)
             cell == CHOOSE k \in dict[key] : TRUE
         IN  IF CellLen(st.matrix[cell]) > 1
             THEN ResolveItems(
                      remove_value_from_view(
                          [st EXCEPT !.matrix[cell] = Cell_set(@, SetOfStr(key)).cell],
                          cell),
                      dict, Tail(keys), TRUE)
             ELSE ResolveItems(st, dict, Tail(keys), change_made)

\* SudokuPuzzle.resolve_uniques_in_context: the cells after the call, the
\* exception it raised and the value it returned
resolve_uniques_in_context(pz, context_type, context_number) ==
    LET iter == get_context_iterator(pz, context_type, context_number).cells
        working_options_dict == cells_per_value_dict(pz, pz.matrix, iter, 1, 1)
        done == ResolveItems([matrix |-> pz.matrix, raised |-> "none"],
                             working_options_dict.dict,
                             Sorted(DOMAIN working_options_dict.dict), FALSE)
    IN  IF working_options_dict.is_none
        THEN [matrix |-> pz.matrix, raised |-> "AttributeError", ret |-> "None"]
        ELSE [matrix |-> done.st.matrix, raised |-> done.st.raised,
              ret |-> IF done.st.raised = "none" THEN Ret(done.change_made) ELSE "None"]

\* the loop of SudokuPuzzle.remove_value_from_context over the context
RECURSIVE RemoveValueLoop(_, _, _, _)
RemoveValueLoop(st, cells, value, changed) ==
    IF cells = <<>> \/ st.raised # "none" THEN [st |-> st, changed |-> changed]
    ELSE LET k == Head(cells)
             removed == Cell_remove_value(st.matrix[k], value)
             now_changed == removed.ret \/ changed
             st1 == [st EXCEPT !.matrix[k] = removed.cell]
         IN  IF CellLen(st.matrix[k]) = 1
             THEN RemoveValueLoop(st, Tail(cells), value, changed)
             ELSE RemoveValueLoop(IF now_changed /\ CellLen(removed.cell) = 1
                                  THEN remove_value_from_view(st1, k) ELSE st1,
                                  Tail(cells), value, now_changed)

\* a remove_value_from_context that removes nothing
remove_value_from_context_none(pz, st, context_type, context_number, value) ==
    [st |-> st, changed |-> FALSE]

\* SudokuPuzzle.remove_value_from_context
remove_value_from_context(pz, st, context_type, context_number, value) ==
    RemoveValueLoop(st,
                    get_context_iterator(WithMatrix(pz, st.matrix), context_type,
                                         context_number).cells,
                    value, FALSE)

\* SudokuPuzzle.remove_values_from_context over the cells its iterator yields
RECURSIVE remove_values_from_context(_, _, _, _)
remove_values_from_context(st, cells, values, changed) ==
    IF cells = <<>> \/ st.raised # "none" THEN [st |-> st, changed |-> changed]
    ELSE LET k == Head(cells)
             removed == Cell_remove_values(st.matrix[k], values)
             now_changed == removed.ret \/ changed
             st1 == [st EXCEPT !.matrix[k] = removed.cell]
         IN  IF CellLen(st.matrix[k]) = 1
             THEN remove_values_from_context(st, Tail(cells), values, changed)
             ELSE remove_values_from_context(
                      IF now_changed /\ CellLen(removed.cell) = 1
                      THEN remove_value_from_view(st1, k) ELSE st1,
                      Tail(cells), values, now_changed)

\* the loop of find_intersection_with_box over the items of the dict, in key
\* order; changed is reset at the top of every turn
RECURSIVE IntersectItems(_, _, _, _, _)
IntersectItems(pz, st, dict, keys, changed) ==
    IF keys = <<>> \/ st.raised # "none" THEN [st |-> st, changed |-> changed]
    ELSE LET value == Head(keys)
             cells == dict[value]
             found_box_cells == {st.matrix[k].box_number : k \in cells}
             box_number == CHOOSE b \in found_box_cells : TRUE
             removal == remove_value_from_context(pz, SetImmutable(st, cells, TRUE),
                                                  "BOX", box_number, value)
         IN  IF Cardinality(found_box_cells) # 1
             THEN IntersectItems(pz, st, dict, Tail(keys), FALSE)
             ELSE IntersectItems(pz,
                                 IF removal.st.raised # "none" THEN removal.st
                                 ELSE SetImmutable(removal.st, cells, FALSE),
                                 dict, Tail(keys), removal.changed)

\* SudokuPuzzle.find_intersection_with_box on the cells of a row or a column
find_intersection_with_box(pz, context_type, context_number) ==
    LET line_iter == get_context_iterator(pz, context_type, context_number).cells
        working_options_dict == cells_per_value_dict(pz, pz.matrix, line_iter, 1, 9)
        done == IntersectItems(pz, [matrix |-> pz.matrix, raised |-> "none"],
                               working_options_dict.dict,
                               Sorted(DOMAIN working_options_dict.dict), FALSE)
    IN  IF working_options_dict.is_none
        THEN [matrix |-> pz.matrix, raised |-> "AttributeError", ret |-> "None"]
        ELSE [matrix |-> done.st.matrix, raised |-> done.st.raised,
              ret |-> IF done.st.raised = "none" THEN Ret(done.changed) ELSE "None"]

\* one turn of the loop of find_combination2 over `values`, for `value`;
\* f.values are the values the loop has still to come to
MergeValue(dict, number_unsolved_cells, f, value) ==
    LET temp_cell_set == f.combo_cell_set \cup dict[value]
    IN  IF Cardinality(temp_cell_set) >= number_unsolved_cells - 1
        THEN [f EXCEPT !.values = @ \ {value}]
        ELSE [values |-> f.values \ {value},
              combo_values |-> f.combo_values \cup {value},
              combo_cell_set |-> temp_cell_set]

\* the loop of find_combination2 over the set `values`, whose iteration
\* order is not fixed: every order it can be iterated in
RECURSIVE MergeAll(_, _, _)
MergeAll(dict, number_unsolved_cells, frontier) ==
    IF \A f \in frontier : f.values = {} THEN frontier
    ELSE MergeAll(dict, number_unsolved_cells,
                  UNION {{MergeValue(dict, number_unsolved_cells, f, value) :
                             value \in f.values} : f \in frontier})

\* SudokuPuzzle.find_combination2: the (combo_values, combo_cell_set) pairs
\* it can return, or the KeyError a value held in fewer than min_size cells
\* raises
find_combination2(matrix, cells_per_value, subject_value) ==
    LET root_cell_set == cells_per_value[subject_value]
        values == UNION {matrix[k].contents : k \in root_cell_set} \ {subject_value}
        merged == MergeAll(cells_per_value, Cardinality(DOMAIN cells_per_value),
                           {[values |-> values, combo_values |-> {subject_value},
                             combo_cell_set |-> root_cell_set]})
    IN  IF ~(values \subseteq DOMAIN cells_per_value)
        THEN {[raised |-> "KeyError", values |-> {}, cells |-> {}]}
        ELSE {IF Cardinality(f.combo_values) # Cardinality(f.combo_cell_set)
              THEN [raised |-> "none", values |-> {}, cells |-> {}]
              ELSE [raised |-> "none", values |-> f.combo_values,
                    cells |-> f.combo_cell_set] : f \in merged}

\* cell.remove_all_but(value_collection) for each cell of cell_set
RemoveAllBut(matrix, cell_set, value_collection) ==
    [k \in DOMAIN matrix |->
        IF k \in cell_set THEN Cell_remove_all_but(matrix[k], value_collection).cell
        ELSE matrix[k]]

RECURSIVE ComboScan(_, _, _, _, _)
RECURSIVE ComboApply(_, _, _, _, _, _)

\* the loops of combo_reduction for combo_size_max = 2, from the subject
\* value Head(keys) of the for loop on (keys = the keys it has still to come
\* to); conf holds the cells, processed_value_combos and change_made.  The
\* result is every outcome of the call: cells, exception raised, value
\* returned.
ComboScan(pz, context_type, context_number, conf, keys) ==
    LET iter == get_context_iterator(WithMatrix(pz, conf.matrix), context_type,
                                     context_number).cells
        cells_per_value == cells_per_value_dict(pz, conf.matrix, iter, 2, 100)
    IN  IF cells_per_value.is_none
        THEN {[matrix |-> conf.matrix, raised |-> "SudokuErrors", ret |-> "None"]}
        ELSE IF keys = <<>>
        THEN {[matrix |-> conf.matrix, raised |-> "none", ret |-> Ret(conf.change_made)]}
        ELSE IF Cardinality(cells_per_value.dict[Head(keys)]) # 2
        THEN ComboScan(pz, context_type, context_number, conf, Tail(keys))
        ELSE UNION {ComboApply(pz, context_type, context_number, conf, keys, combo) :
                       combo \in find_combination2(conf.matrix, cells_per_value.dict,
                                                   Head(keys))}

\* the body of the for loop of combo_reduction once find_combination2 has
\* returned combo, and the loops from there on
ComboApply(pz, context_type, context_number, conf, keys, combo) ==
    LET reduced == RemoveAllBut(conf.matrix, combo.cells, combo.values)
        replacement_context_iterator ==
            get_context_iterator(WithMatrix(pz, reduced), context_type,
                                 context_number).cells
        removal == remove_values_from_context(
                       SetImmutable([matrix |-> reduced, raised |-> "none"],
                                    combo.cells, TRUE),
                       replacement_context_iterator, Sorted(combo.values), FALSE)
        released == SetImmutable(removal.st, combo.cells, FALSE)
        change_just_made == removal.changed \/ reduced # conf.matrix
        next_conf == [matrix |-> released.matrix,
                      processed_value_combos |->
                          conf.processed_value_combos \cup {combo.values},
                      change_made |-> conf.change_made \/ change_just_made]
        refreshed == cells_per_value_dict(pz, released.matrix,
                                          replacement_context_iterator, 2, 100)
    IN  IF combo.raised # "none"
        THEN {[matrix |-> conf.matrix, raised |-> "SudokuErrors", ret |-> "None"]}
        ELSE IF combo.values = {} \/ combo.values \in conf.processed_value_combos
        THEN ComboScan(pz, context_type, context_number, conf, Tail(keys))
        ELSE IF removal.st.raised # "none"
        THEN {[matrix |-> removal.st.matrix, raised |-> "SudokuErrors", ret |-> "None"]}
        ELSE IF change_just_made /\ refreshed.is_none
        THEN {[matrix |-> released.matrix, raised |-> "SudokuErrors", ret |-> "None"]}
        ELSE IF change_just_made
        THEN ComboScan(pz, context_type, context_number, next_conf,
                       Sorted(DOMAIN refreshed.dict))
        ELSE ComboScan(pz, context_type, context_number, next_conf, Tail(keys))

\* SudokuPuzzle.combo_reduction: every outcome of the call
combo_reduction(pz, context_type, context_number) ==
    LET build_context_itr == get_context_iterator(pz, context_type, context_number).cells
        cells_per_value == cells_per_value_dict(pz, pz.matrix, build_context_itr, 2, 100)
    IN  IF cells_per_value.is_none
        THEN {[matrix |-> pz.matrix, raised |-> "SudokuErrors", ret |-> "None"]}
        ELSE IF 2 = Cardinality(DOMAIN cells_per_value.dict) - 2
        THEN {[matrix |-> pz.matrix, raised |-> "none", ret |-> "None"]}
        ELSE ComboScan(pz, context_type, context_number,
                       [matrix |-> pz.matrix, processed_value_combos |-> {},
                        change_made |-> FALSE],
                       Sorted(DOMAIN cells_per_value.dict))

\* The solutions of a clue sequence: the ways to put one of `symbols` in
\* every blank so that no symbol is twice in a row, a column or a box.
SameContext(dimension, i, j) ==
    LET box_dimension == IntSqrt(dimension)
    IN  \/ RowIndex(dimension, i) = RowIndex(dimension, j)
        \/ ColumnIndex(dimension, i) = ColumnIndex(dimension, j)
        \/ /\ RowIndex(dimension, i) \div box_dimension
                  = RowIndex(dimension, j) \div box_dimension
           /\ ColumnIndex(dimension, i) \div box_dimension
                  = ColumnIndex(dimension, j) \div box_dimension

Open(dimension, grid, blank, symbols, i) ==
    symbols \ {grid[j] : j \in {k \in DOMAIN grid \ {i} : SameContext(dimension, i, k)}}

\* grids: the ways found to fill the blanks before Head(blanks); blanks: the
\* positions still blank, in increasing order
RECURSIVE Completions(_, _, _, _)
Completions(dimension, grids, blanks, symbols) ==
    IF blanks = <<>> \/ grids = {} THEN grids
    ELSE Completions(dimension,
                     UNION {{[grid EXCEPT ![Head(blanks)] = v] :
                                v \in Open(dimension, grid, <<>>, symbols, Head(blanks))} :
                            grid \in grids},
                     Tail(blanks), symbols)

SolutionsOf(clues, blank) ==
    LET dimension == IntSqrt(Len(clues))
        IsBlank(i) == clues[i] = blank
    IN  IF \E i, j \in DOMAIN clues :
              /\ i # j /\ clues[i] # blank /\ clues[i] = clues[j]
              /\ SameContext(dimension, i, j)
        THEN {}
        ELSE Completions(dimension, {clues},
                         SelectSeq([i \in DOMAIN clues |-> i], IsBlank),
                         Range(FirstValues(dimension)))

\* the sequence of one-character strings of a string of characters
Clues(chars) == [i \in DOMAIN chars |-> <<chars[i]>>]

\* grids solve_puzzle is called on
SolveGrids ==
    { \* solved by normalize alone: one solution
      <<"1", "2", "3", " ",  "3", " ", " ", "2",
        " ", "1", " ", "3",  " ", "3", "2", "1">>,
      \* four clues, one solution
      <<" ", " ", " ", " ",  " ", "4", "1", " ",
        "2", " ", " ", "3",  " ", " ", " ", " ">>,
      \* one solution (1234 3412 2341 4123), clues that use three symbols
      <<"1", "2", " ", " ",  " ", " ", " ", " ",
        " ", " ", "4", " ",  " ", "1", " ", " ">>,
      \* several solutions; the later stages are reached
      <<"1", "2", "4", " ",  " ", " ", " ", "2",
        " ", " ", " ", " ",  " ", " ", "3", " ">>,
      <<"2", " ", " ", " ",  " ", " ", " ", " ",
        "4", " ", "3", "1",  "1", "3", " ", "4">>,
      <<"1", "2", "3", "4",  " ", " ", " ", " ",
        " ", " ", " ", " ",  " ", " ", " ", " ">>,
      \* 9 x 9, one solution; subset reduction finds a combination
      <<" ", " ", "5", "1", " ", "3", " ", " ", "4",
        " ", "4", "9", " ", " ", "5", "1", " ", " ",
        " ", " ", "8", "9", " ", " ", " ", " ", "5",
        " ", "2", "6", " ", " ", "9", "4", " ", " ",
        " ", " ", "7", "3", "6", " ", "9", " ", " ",
        " ", "8", " ", " ", " ", " ", " ", " ", "6",
        " ", " ", "4", " ", " ", " ", " ", " ", "9",
        " ", " ", " ", "6", " ", " ", "7", "4", "3",
        "7", " ", " ", "4", " ", "1", " ", " ", " ">>,
      \* 9 x 9, one solution; find_combination2 raises KeyError
      <<"4", " ", " ", " ", " ", " ", " ", "8", " ",
        "5", " ", "6", "8", "2", " ", "4", " ", "9",
        "9", " ", "8", " ", "5", "7", "6", "2", " ",
        " ", " ", "5", " ", "6", " ", "1", " ", "2",
        " ", " ", " ", "7", " ", " ", "3", " ", "5",
        "2", " ", " ", " ", " ", " ", " ", "7", " ",
        " ", "9", " ", "5", "1", "4", " ", " ", " ",
        " ", " ", " ", " ", " ", " ", " ", " ", "4",
        " ", "5", " ", " ", "3", " ", " ", " ", " ">> }

InitSolve ==
    /\ \E chars \in SolveGrids :
          LET args == Args(Flat(chars), 9, default_value_options, <<" ">>)
          IN  /\ build = [status |-> Built(args).status, args |-> args]
              /\ puzzle = Built(args).puzzle
              /\ sol = [NoSol EXCEPT !.pc = "start",
                                     !.solutions = SolutionsOf(Clues(chars), <<" ">>)]
    /\ it = NoIterator
    /\ op = NoOp
    /\ gen = NoGen

\* solve_puzzle comes to its end, returning or raising SudokuErrors
Finished(raised) == [sol EXCEPT !.pc = "done", !.raised = raised]

\* apply_to_all_contexts / intersecting_context_resolution is entered
Entering(pc) ==
    [sol EXCEPT !.pc = pc, !.context = "ROW", !.number = 1, !.change_made = FALSE,
                !.overall_change_made = FALSE]

\* the context the loops of apply_to_all_contexts come to next ("NONE" at
\* the end of the pass); last_context is "BOX", or "COLUMN" for
\* intersecting_context_resolution
NextContext(last_context) ==
    IF sol.number < puzzle.dimension
    THEN [context |-> sol.context, number |-> sol.number + 1]
    ELSE IF sol.context = last_context THEN [context |-> "NONE", number |-> 0]
    ELSE IF sol.context = "ROW" THEN [context |-> "COLUMN", number |-> 1]
    ELSE [context |-> "BOX", number |-> 1]

\* the record of the call that has just returned
Called(name, ret) ==
    [name |-> name, context |-> sol.context, number |-> sol.number, ret |-> ret]

\* solve_puzzle: fill_empty_cells_with_options()
FillOptions ==
    /\ sol.pc = "start"
    /\ puzzle' = fill_empty_cells_with_options(puzzle)
    /\ sol' = [sol EXCEPT !.pc = "normalize", !.number = 1]
    /\ UNCHANGED <<build, it, op, gen>>

\* solve_puzzle: normalize(), one row of its loop, and after the last row
\* the first test of unsolved_cell_count()
Normalize ==
    /\ sol.pc = "normalize"
    /\ LET st == NormalizeRow(puzzle, sol.number)
           after == WithMatrix(puzzle, st.matrix)
       IN  /\ puzzle' = after
           /\ sol' = IF st.raised # "none" THEN Finished("SudokuErrors")
                     ELSE IF sol.number < puzzle.dimension
                     THEN [sol EXCEPT !.number = @ + 1]
                     ELSE IF unsolved_cell_count(after) > 0
                     THEN [Entering("uniques") EXCEPT !.last = Called("normalize", "None")]
                     ELSE [Finished("none") EXCEPT !.last = Called("normalize", "None")]
    /\ UNCHANGED <<build, it, op, gen>>

\* apply_to_all_contexts after func_to_apply returned ret for the context
\* sol.context, sol.number: the next context, the next pass, or its return
\* value handed to Returned
Applied_to_context(name, ret, Returned(_)) ==
    LET change_made == Truthy(ret) \/ sol.change_made
        next == NextContext("BOX")
        overall_change_made == sol.overall_change_made \/ change_made
    IN  IF next.context # "NONE"
        THEN [sol EXCEPT !.context = next.context, !.number = next.number,
                         !.change_made = change_made, !.last = Called(name, ret)]
        ELSE IF change_made
        THEN [sol EXCEPT !.context = "ROW", !.number = 1, !.change_made = FALSE,
                         !.overall_change_made = overall_change_made,
                         !.last = Called(name, ret)]
        ELSE [Returned(overall_change_made) EXCEPT !.last = Called(name, ret)]

\* solve_puzzle: apply_to_all_contexts(resolve_uniques_in_context), one call
\* of resolve_uniques_in_context, and after the last pass the second test of
\* unsolved_cell_count()
ResolveUniques ==
    /\ sol.pc = "uniques"
    /\ LET call == resolve_uniques_in_context(puzzle, sol.context, sol.number)
           after == WithMatrix(puzzle, call.matrix)
           Returned(overall_change_made) ==
               IF unsolved_cell_count(after) > 0 THEN Entering("intersect")
               ELSE Finished("none")
       IN  /\ puzzle' = after
           /\ sol' = IF call.raised # "none" THEN Finished("SudokuErrors")
                     ELSE Applied_to_context("resolve_uniques_in_context", call.ret,
                                             Returned)
    /\ UNCHANGED <<build, it, op, gen>>

\* solve_puzzle: intersecting_context_resolution(), one call of
\* find_intersection_with_box; its return value is not used
Intersect ==
    /\ sol.pc = "intersect"
    /\ LET call == find_intersection_with_box(puzzle, sol.context, sol.number)
           change_made == Truthy(call.ret) \/ sol.change_made
           next == NextContext("COLUMN")
           last == Called("find_intersection_with_box", call.ret)
       IN  /\ puzzle' = WithMatrix(puzzle, call.matrix)
           /\ sol' = IF call.raised # "none" THEN Finished("SudokuErrors")
                     ELSE IF next.context # "NONE"
                     THEN [sol EXCEPT !.context = next.context, !.number = next.number,
                                      !.change_made = change_made, !.last = last]
                     ELSE IF change_made
                     THEN [Entering("intersect") EXCEPT !.last = last]
                     ELSE [Entering("combo") EXCEPT !.last = last]
    /\ UNCHANGED <<build, it, op, gen>>

\* solve_puzzle: apply_to_all_contexts(combo_reduction), one call of
\* combo_reduction, and after the last pass the test of the while loop
ComboReduction ==
    /\ sol.pc = "combo"
    /\ \E call \in combo_reduction(puzzle, sol.context, sol.number) :
          LET Returned(changed) ==
                  IF changed THEN Entering("intersect") ELSE Finished("none")
          IN  /\ puzzle' = WithMatrix(puzzle, call.matrix)
              /\ sol' = IF call.raised # "none" THEN Finished("SudokuErrors")
                        ELSE Applied_to_context("combo_reduction", call.ret, Returned)
    /\ UNCHANGED <<build, it, op, gen>>

NextSolve == FillOptions \/ Normalize \/ ResolveUniques \/ Intersect \/ ComboReduction

SpecSolve == InitSolve /\ [][NextSolve]_vars

----------------------------------------------------------------------------
(* A stage of solve_puzzle run a second time: when a stage has returned,   *)
(* the same stage is called again on the grid it left, and nothing after   *)
(* it.  Up to that second call the states are those of solve_puzzle.       *)

\* the stage whose call has just returned ("none" inside a stage)
StageReturned ==
    IF sol.raised # "none" THEN "none"
    ELSE IF sol.last.name = "normalize" /\ sol.pc \in {"uniques", "done"}
              /\ sol.last.number = puzzle.dimension
    THEN "normalize"
    ELSE IF sol.last.name = "resolve_uniques_in_context"
              /\ sol.pc \in {"intersect", "done"}
    THEN "uniques"
    ELSE IF sol.last.name = "find_intersection_with_box" /\ sol.pc = "combo"
    THEN "intersect"
    ELSE IF sol.last.name = "combo_reduction" /\ sol.pc \in {"intersect", "done"}
    THEN "combo"
    ELSE "none"

\* the second call of a stage is under way or has returned
SecondRun == op.name = "second_run"

\* the stage that has just returned is called again
RunAgain ==
    /\ ~SecondRun
    /\ StageReturned # "none"
    /\ op' = [NoOp EXCEPT !.name = "second_run", !.arg = <<StageReturned>>,
                          !.before = puzzle.matrix]
    /\ sol' = IF StageReturned = "normalize"
              THEN [sol EXCEPT !.pc = "normalize", !.number = 1,
                               !.last = NoSol.last]
              ELSE [Entering(StageReturned) EXCEPT !.last = NoSol.last]
    /\ UNCHANGED <<build, puzzle, it, gen>>

\* a step of solve_puzzle, or of the second call until it returns
SolveStep ==
    /\ SecondRun => StageReturned = "none"
    /\ NextSolve

NextAgain == SolveStep \/ RunAgain

SpecAgain == InitSolve /\ [][NextAgain]_vars

----------------------------------------------------------------------------
(* solve_puzzle run twice on equal grids: when the first run has ended, a  *)
(* second solver is made for the grid the builder returned and run to its  *)
(* end.  In both runs the set `values` of find_combination2 is iterated in  *)
(* any order.                                                               *)

\* grids solve_puzzle is run twice on
TwiceGrids ==
    { \* four clues, one solution
      <<" ", " ", " ", " ",  " ", "4", "1", " ",
        "2", " ", " ", "3",  " ", " ", " ", " ">>,
      \* 24 clues, one solution; the subset reduction finds combinations
      <<" ", " ", "2", " ", " ", "1", " ", "6", " ",
        " ", "5", " ", " ", " ", " ", " ", "8", " ",
        " ", "6", "4", " ", "3", " ", " ", "7", " ",
        " ", " ", "9", " ", "2", " ", " ", " ", "3",
        " ", " ", "6", "3", "1", " ", " ", " ", " ",
        "7", " ", " ", " ", " ", " ", "2", " ", " ",
        " ", " ", " ", " ", " ", "6", "4", " ", " ",
        " ", " ", "7", "4", " ", " ", "9", "3", " ",
        "5", " ", " ", " ", " ", " ", " ", " ", " ">> }

InitTwice ==
    /\ \E chars \in TwiceGrids :
          LET args == Args(Flat(chars), 9, default_value_options, <<" ">>)
          IN  /\ build = [status |-> Built(args).status, args |-> args]
              /\ puzzle = Built(args).puzzle
    /\ sol = [NoSol EXCEPT !.pc = "start"]
    /\ it = NoIterator
    /\ op = NoOp
    /\ gen = NoGen

\* the second run is under way or has ended
SecondSolve == op.name = "second_solve"

\* SudokuSolver(puzzle).solve_puzzle() a second time, on the grid the builder
\* returned; the grid and the exception of the first run are kept in op
SolveAgain ==
    /\ ~SecondSolve
    /\ sol.pc = "done"
    /\ op' = [NoOp EXCEPT !.name = "second_solve", !.before = puzzle.matrix,
                          !.raised = sol.raised]
    /\ puzzle' = Built(build.args).puzzle
    /\ sol' = [NoSol EXCEPT !.pc = "start"]
    /\ UNCHANGED <<build, it, gen>>

NextTwice == NextSolve \/ SolveAgain

SpecTwice == InitTwice /\ [][NextTwice]_vars

----------------------------------------------------------------------------
(* solve_puzzle on grids the builder accepts whose clues, though no value   *)
(* is given twice in a row, column or box, admit no solution.               *)

UnsolvableGrids ==
    { \* box 1 holds 2, 3, 1 and its fourth cell shares a row with a 4
      <<"2", "3", " ", " ",  "1", " ", " ", "4",
        " ", " ", " ", " ",  " ", " ", " ", " ">>,
      \* the cell of row 1, column 2 sees 3, 1, 4 and 2
      <<"3", " ", "1", " ",  " ", " ", " ", "4",
        " ", " ", " ", "2",  " ", " ", " ", " ">>,
      \* row 1 lacks only a 4, and its open cell shares a box with a 4
      <<"1", " ", "2", "3",  " ", "4", " ", " ",
        " ", " ", " ", " ",  " ", " ", " ", " ">>,
      \* row 4 lacks a 3 and a 4, and column 2 already holds both
      <<" ", " ", " ", " ",  " ", " ", " ", " ",
        "4", " ", "3", " ",  "2", "1", " ", " ">> }

InitUnsolvable ==
    /\ \E chars \in UnsolvableGrids :
          LET args == Args(Flat(chars), 9, default_value_options, <<" ">>)
          IN  /\ build = [status |-> Built(args).status, args |-> args]
              /\ puzzle = Built(args).puzzle
    /\ sol = [NoSol EXCEPT !.pc = "start"]
    /\ it = NoIterator
    /\ op = NoOp
    /\ gen = NoGen

SpecUnsolvable == InitUnsolvable /\ [][NextSolve]_vars

----------------------------------------------------------------------------
(* solve_puzzle on a grid where subset reduction meets a subject value held *)
(* by three cells.                                                          *)

SubsetGrids ==
    { \* 9 x 9; in row 7 the values 1, 6 and 9 are held by the same three cells
      <<"4", " ", " ", " ", " ", " ", " ", " ", " ",
        " ", " ", " ", "9", " ", "8", " ", "2", " ",
        " ", " ", "1", " ", " ", "3", " ", " ", " ",
        " ", " ", " ", " ", "5", " ", " ", "7", " ",
        " ", " ", " ", " ", " ", "4", "3", " ", " ",
        "8", " ", "5", " ", "3", " ", " ", "9", " ",
        " ", " ", " ", "2", " ", " ", "5", "4", " ",
        "6", " ", "4", " ", " ", " ", " ", " ", "2",
        " ", "1", "9", " ", "4", " ", " ", "8", " ">>,
      \* 9 x 9; in row 3 the values 3, 6, 7 and 8 are held by the same four cells
      <<" ", "5", "3", " ", " ", " ", " ", " ", "9",
        "6", "7", "8", " ", " ", " ", " ", " ", " ",
        " ", " ", " ", " ", " ", "4", " ", " ", " ",
        " ", "4", " ", " ", " ", " ", "5", " ", " ",
        " ", " ", " ", "2", "8", " ", " ", "4", "3",
        " ", " ", " ", " ", "5", " ", " ", " ", " ",
        " ", " ", " ", " ", " ", "3", " ", " ", "7",
        " ", " ", " ", "5", " ", "8", " ", "9", " ",
        " ", "1", " ", " ", " ", "2", " ", " ", "8">> }

InitSubsets ==
    /\ \E chars \in SubsetGrids :
          LET args == Args(Flat(chars), 9, default_value_options, <<" ">>)
          IN  /\ build = [status |-> Built(args).status, args |-> args]
              /\ puzzle = Built(args).puzzle
    /\ sol = [NoSol EXCEPT !.pc = "start"]
    /\ it = NoIterator
    /\ op = NoOp
    /\ gen = NoGen

SpecSubsets == InitSubsets /\ [][NextSolve]_vars

----------------------------------------------------------------------------
(* Propagation called on any cell of a grid: Cell.remove_value_from_context *)
(* and SudokuCell.remove_value_from_view, on the grid the builder returns   *)
(* and on the grids later calls leave.                                       *)

\* grids the propagation is called on
ViewGrids ==
    { <<" ", " ", " ", " ",  " ", "4", "1", " ",  "2", " ", " ", "3",  " ", " ", " ", " ">>,
      <<"1", "2", "3", "4",  " ", " ", " ", " ",  " ", " ", " ", " ",  " ", " ", " ", " ">>,
      <<"1", "2", " ", " ",  " ", " ", " ", " ",  " ", " ", "4", " ",  " ", "1", "3", " ">> }

\* propagation calls made on a grid
MaxCalls == 2

\* the calls recorded in op
PropagationCalls == {"remove_value_from_context", "remove_value_from_view"}

InitView ==
    /\ \E chars \in ViewGrids :
          LET args == Args(Flat(chars), 9, default_value_options, <<" ">>)
          IN  /\ build = [status |-> Built(args).status, args |-> args]
              /\ puzzle = Built(args).puzzle
    /\ it = NoIterator
    /\ op = NoOp
    /\ gen = NoGen
    /\ sol = NoSol

\* the call returned or raised, leaving the cells of st
Propagated(name, cell, context, st) ==
    /\ op.calls < MaxCalls
    /\ puzzle' = WithMatrix(puzzle, st.matrix)
    /\ op' = [name |-> name, cell |-> cell, arg |-> <<context>>,
              before |-> puzzle.matrix, ret |-> FALSE, raised |-> st.raised,
              calls |-> op.calls + 1]
    /\ UNCHANGED <<build, it, gen, sol>>

\* puzzle.fill_empty_cells_with_options()
FillCandidates ==
    /\ op.name = "none"
    /\ puzzle' = fill_empty_cells_with_options(puzzle)
    /\ op' = [NoOp EXCEPT !.name = "fill_empty_cells_with_options"]
    /\ UNCHANGED <<build, it, gen, sol>>

\* cell.remove_value_from_context(iterator of the cell's context)
DoRemoveValueFromContext(cell, context) ==
    Propagated("remove_value_from_context", cell, context,
               Cell_remove_value_from_context(
                   [matrix |-> puzzle.matrix, raised |-> "none"], cell, context))

\* cell.remove_value_from_view()
DoRemoveValueFromView(cell) ==
    Propagated("remove_value_from_view", cell, "VIEW",
               remove_value_from_view(
                   [matrix |-> puzzle.matrix, raised |-> "none"], cell))

NextView ==
    \/ FillCandidates
    \/ \E cell \in DOMAIN puzzle.matrix, context \in ContextTypes :
            DoRemoveValueFromContext(cell, context)
    \/ \E cell \in DOMAIN puzzle.matrix : DoRemoveValueFromView(cell)

SpecView == InitView /\ [][NextView]_vars

----------------------------------------------------------------------------
(* SudokuCell(value, row_index, column_index, placeholder) called directly. *)

\* initial values: the empty string, strings of one character, a longer one
CellValues == {<<>>, <<" ">>, <<"9">>, <<"x">>, <<"1", "2">>}

\* row_index / column_index, -1 being the default of the parameter
CellIndices == {-2, -1, 0, 5}

CellPlaceholders == {<<" ">>, <<"x">>}

InitNewCell ==
    /\ build = [status |-> "none", args |-> NoArgs]
    /\ puzzle = NoPuzzle
    /\ it = NoIterator
    /\ op = NoOp
    /\ gen = NoGen
    /\ sol = NoSol

\* cell = SudokuCell(value, row_index, column_index, placeholder): the new
\* cell is kept as the one cell of puzzle.matrix
Construct(value, row_index, column_index, placeholder) ==
    LET new == NewCell(value, row_index, column_index, placeholder)
    IN  /\ build' = [status |-> IF new.error = "none" THEN "ok" ELSE new.error,
                     args |-> [value |-> value, row_index |-> row_index,
                               column_index |-> column_index,
                               placeholder |-> placeholder]]
        /\ puzzle' = [NoPuzzle EXCEPT !.matrix =
                         IF new.error = "none" THEN <<new.cell>> ELSE <<>>]
        /\ UNCHANGED <<it, op, gen, sol>>

NextNewCell ==
    \E value \in CellValues, row_index \in CellIndices,
       column_index \in CellIndices, placeholder \in CellPlaceholders :
          Construct(value, row_index, column_index, placeholder)

SpecNewCell == InitNewCell /\ [][NextNewCell]_vars

----------------------------------------------------------------------------
(* Properties of the builder and the iterators (checked under SpecBuild). *)

\* cell i was built from a value other than the placeholder
IsClue(i) ==
    /\ build.args.starting_values.kind = "list"
    /\ build.args.starting_values.elems[i].val # build.args.placeholder

\* the value cell i was built from
ClueValue(i) == build.args.starting_values.elems[i].val

IsPerfectSquare(n) == \E k \in 0..n : k * k = n

Distinct(seq) == \A i, j \in DOMAIN seq : i # j => seq[i] # seq[j]

\* C5: without starting_values the builder raises a build error and yields no
\* puzzle whenever the dimension is not a perfect square, the number of value
\* options differs from the dimension, the placeholder is one of the value
\* options, or the placeholder is not exactly one character wide.
C5_BuilderRejectsBadParameters ==
    LET a == build.args
    IN  ( /\ build.status # "none"
          /\ a.starting_values.kind = "None"
          /\ \/ ~IsPerfectSquare(a.dimension)
             \/ Len(a.all_possible_values) # a.dimension
             \/ a.placeholder \in Range(a.all_possible_values)
             \/ Len(a.placeholder) # 1 )
        => (build.status = "SudokuBuildError" /\ puzzle = NoPuzzle)

\* a call rejected for its placeholder alone: the dimension is a square and
\* the value options match it, but the placeholder is one of them
C5_Witness ==
    /\ build.status = "SudokuBuildError"
    /\ build.args.starting_values.kind = "None"
    /\ build.args.dimension = 4
    /\ Len(build.args.all_possible_values) = 4
    /\ build.args.placeholder = <<"1">>

\* C6: a grid is returned for starting_values only if they are a flat list of
\* one-character strings of length dimension * dimension, for a dimension that
\* is a perfect square and equals the number of value options; so every grid
\* returned has dimension = box_dimension * box_dimension and as many value
\* options as its dimension.
C6_StartingValuesValidated ==
    LET sv == build.args.starting_values
    IN  (build.status = "ok" /\ sv.kind # "None")
        => /\ sv.kind = "list"
           /\ \A i \in DOMAIN sv.elems : sv.elems[i].is_str /\ Len(sv.elems[i].val) = 1
           /\ Len(sv.elems) = puzzle.dimension * puzzle.dimension
           /\ IsPerfectSquare(puzzle.dimension)
           /\ Len(puzzle.all_value_options) = puzzle.dimension
           /\ puzzle.dimension = puzzle.box_dimension * puzzle.box_dimension

\* the attribute of a cell that names its row, column or box
ContextNumber(cell, context) ==
    CASE context = "ROW"    -> cell.row_number
      [] context = "COLUMN" -> cell.column_number
      [] context = "BOX"    -> cell.box_number

\* C7: an iterator started on any cell of a built grid, in any of the three
\* contexts, yields the starting cell first, only distinct cells of that
\* cell's row, column or box, exactly `dimension` of them by the time it is
\* exhausted, and once exhausted it keeps raising StopIteration.
C7_IteratorYieldsContext ==
    it.active =>
        LET first == it.iter.first_cell
            context == it.iter.context
        IN  /\ it.raised # "AttributeError"
            /\ Len(it.yielded) >= 1 => it.yielded[1] = first
            /\ Distinct(it.yielded)
            /\ \A k \in DOMAIN it.yielded :
                  ContextNumber(puzzle.matrix[it.yielded[k]], context)
                    = ContextNumber(puzzle.matrix[first], context)
            /\ Len(it.yielded) <= puzzle.dimension
            /\ it.iter.stop => Len(it.yielded) = puzzle.dimension
            /\ it.stops > 0 => (it.iter.stop /\ it.raised = "StopIteration")

----------------------------------------------------------------------------
(* Properties of the Cell operations (checked under SpecCell). *)

\* C8: whatever operations are applied to it, an immutable cell keeps the
\* contents it had when it became immutable (the clue it was built from), and
\* set, remove_value and remove_values return False on it.
C8_ImmutableCellUntouched ==
    /\ \A i \in DOMAIN puzzle.matrix :
          puzzle.matrix[i].immutable => puzzle.matrix[i].contents = {ClueValue(i)}
    /\ ( /\ op.name \in {"set", "remove_value", "remove_values"}
         /\ puzzle.matrix[op.cell].immutable )
       => op.ret = FALSE

\* C9: on a cell that is not immutable, remove_value(v), remove_values(vs) and
\* remove_all_but(keepers) leave old \ {v}, old \ vs and old \cap keepers, and
\* each returns True exactly when the contents changed.
C9_RemovalsOnMutableCell ==
    (op.name \in {"remove_value", "remove_values", "remove_all_but"}
        /\ ~puzzle.matrix[op.cell].immutable)
    => LET now == puzzle.matrix[op.cell].contents
       IN  /\ op.name = "remove_value" => now = op.before \ {op.arg}
           /\ op.name = "remove_values" => now = op.before \ Range(op.arg)
           /\ op.name = "remove_all_but" => now = op.before \cap op.arg
           /\ op.ret = (now # op.before)

\* a removal that changed a mutable cell and one that did not
C9_Witness ==
    /\ op.name = "remove_values"
    /\ ~puzzle.matrix[op.cell].immutable
    /\ op.before = {<<"1">>, <<"2">>}
    /\ op.arg = <<(<<"1">>), (<<"1">>)>>
    /\ op.ret = TRUE

\* C10: for every contents a cell can come to hold, empty() is true iff the
\* contents are {placeholder}, solved() is true iff the contents are exactly
\* one value that is not the placeholder, and unsolved_cell_count() counts the
\* cells for which that is not so.
C10_EmptyAndSolved ==
    LET OneValue(cell) ==
            Cardinality(cell.contents) = 1 /\ cell.contents # {cell.placeholder}
    IN  /\ \A i \in DOMAIN puzzle.matrix :
              /\ Cell_empty(puzzle.matrix[i])
                    <=> (puzzle.matrix[i].contents = {puzzle.matrix[i].placeholder})
              /\ Cell_solved(puzzle.matrix[i]) <=> OneValue(puzzle.matrix[i])
        /\ unsolved_cell_count(puzzle)
              = Cardinality({i \in DOMAIN puzzle.matrix : ~OneValue(puzzle.matrix[i])})

----------------------------------------------------------------------------
(* Properties of the generator (checked under SpecFill). *)

\* the clues are mutually consistent: no value is given twice in a row, a
\* column or a box
CluesConsistent ==
    \A i, j \in DOMAIN puzzle.matrix :
        (i # j /\ IsClue(i) /\ IsClue(j) /\ ClueValue(i) = ClueValue(j))
        => /\ puzzle.matrix[i].row_number # puzzle.matrix[j].row_number
           /\ puzzle.matrix[i].column_number # puzzle.matrix[j].column_number
           /\ puzzle.matrix[i].box_number # puzzle.matrix[j].box_number

\* the number of cells of context `number` whose contents include the value
Occurrences(pz, context, number, value) ==
    Cardinality({k \in Range(get_context_iterator(pz, context, number).cells) :
                    value \in pz.matrix[k].contents})

FillReturned(status) == gen.pc = "done" /\ gen.status = status

\* C1: when fill() returns PASSED on a grid that was empty or held mutually
\* consistent clues, every row, every column and every box holds each value
\* of the alphabet exactly once.
C1_FilledGridIsValid ==
    (FillReturned("PASSED") /\ CluesConsistent)
    => \A context \in ContextTypes, number \in 1..puzzle.dimension,
          value \in Range(puzzle.all_value_options) :
            Occurrences(puzzle, context, number, value) = 1

\* fill() has returned PASSED on the 4 x 4 grid with four consistent clues
C1_Witness ==
    /\ FillReturned("PASSED")
    /\ CluesConsistent
    /\ puzzle.dimension = 4
    /\ Cardinality({i \in DOMAIN puzzle.matrix : IsClue(i)}) = 4

\* C2: when fill() returns PASSED, on an empty grid or on a grid built from a
\* partial list of clues, no cell is left unsolved.
C2_FilledGridHasNoUnsolvedCell ==
    FillReturned("PASSED") => unsolved_cell_count(puzzle) = 0

\* C4: during and after fill(), through every undo and every clear, each cell
\* built from a clue holds exactly the value it was built with and is still
\* immutable.
C4_FillKeepsClues ==
    gen.pc # "start" =>
        \A i \in DOMAIN puzzle.matrix :
            IsClue(i) => /\ puzzle.matrix[i].contents = {ClueValue(i)}
                         /\ puzzle.matrix[i].immutable

\* fill() has cleared a grid with clues after a failed attempt and started over
C4_Witness ==
    /\ gen.attempt = 2
    /\ gen.pc = "call"
    /\ \E i \in DOMAIN puzzle.matrix : IsClue(i)
    /\ puzzle.dimension = 4

----------------------------------------------------------------------------
(* Properties of the solver (SpecSolve) *)

\* Puzzle.__eq__
Puzzle_eq(self, other) ==
    /\ self.dimension = other.dimension
    /\ \A i \in DOMAIN self.matrix :
          CellStr(self.matrix[i]) = CellStr(other.matrix[i])

\* the solution of the clues, when they have exactly one
Solution == CHOOSE s \in sol.solutions : TRUE

\* the puzzle the builder returns for the solution as starting_values
SolutionPuzzle ==
    Built(Args([kind |-> "list",
                elems |-> [i \in DOMAIN Solution |-> StrElem(Solution[i])]],
               9, default_value_options, <<" ">>)).puzzle

\* C3: for a puzzle whose clues have exactly one solution S, in every state
\* of solve_puzzle after fill_empty_cells_with_options the contents of each
\* cell include S's value for the cell, and if solve_puzzle returns with
\* unsolved_cell_count() = 0 the solver's puzzle equals (__eq__) the puzzle
\* built from S.
C3_SolverKeepsSolution ==
    Cardinality(sol.solutions) = 1 =>
        /\ sol.pc \notin {"idle", "start"} =>
              \A i \in DOMAIN puzzle.matrix : Solution[i] \in puzzle.matrix[i].contents
        /\ (sol.pc = "done" /\ sol.raised = "none" /\ unsolved_cell_count(puzzle) = 0)
              => Puzzle_eq(puzzle, SolutionPuzzle)

----------------------------------------------------------------------------
(* Properties of propagation (SpecView) *)

\* C11: a call of remove_value_from_context or remove_value_from_view on a
\* cell whose length (Cell.__len__: 0 for an empty cell) is not 1 raises
\* CellExcept and leaves every cell of the grid as it was.
C11_PropagationNeedsOneValue ==
    (op.name \in PropagationCalls /\ CellLen(op.before[op.cell]) # 1)
        => /\ op.raised = "CellExcept"
           /\ puzzle.matrix = op.before

----------------------------------------------------------------------------
(* Properties of the cell constructor (SpecNewCell) *)

\* C12: SudokuCell(value, row_index, column_index, placeholder) raises
\* CellExcept when an index is negative or the value is longer than one
\* character; otherwise the new cell is immutable with contents {value} if
\* the value is not the placeholder, and empty and mutable if it is.
C12_CellConstruction ==
    build.status # "none" =>
        LET a == build.args
        IN  IF a.row_index < 0 \/ a.column_index < 0 \/ Len(a.value) > 1
            THEN build.status = "CellExcept" /\ puzzle.matrix = <<>>
            ELSE /\ build.status = "ok"
                 /\ LET cell == puzzle.matrix[1]
                    IN  IF a.value # a.placeholder
                        THEN cell.immutable /\ cell.contents = {a.value}
                        ELSE Cell_empty(cell) /\ ~cell.immutable

----------------------------------------------------------------------------
(* Properties of the stages run twice (SpecAgain) *)

\* C13: when normalize, the unique-resolution pass,
\* intersecting_context_resolution or the subset-reduction pass is run a
\* second time right after it returned in solve_puzzle, the second run
\* changes no cell's candidate set.
C13_StagesIdempotent ==
    SecondRun => Contents(puzzle.matrix) = Contents(op.before)

----------------------------------------------------------------------------
(* Properties of the end of solve_puzzle (SpecSolve) *)

\* solve_puzzle has returned without an exception
SolveReturned == sol.pc = "done" /\ sol.raised = "none"

\* C14: solve_puzzle does not return with a cell still unsolved unless the
\* generator's backtracking fill has been invoked (after the propagation
\* stages stopped changing the grid) on the grid cleared of its
\* non-immutable cells.
C14_FallbackFill ==
    (SolveReturned /\ unsolved_cell_count(puzzle) > 0) => gen.pc # "idle"

\* C15: solve_puzzle ends without an exception, whether the grid is solved
\* or not: an unsolved grid is reported through the returned puzzle and
\* never raised as an error.
C15_UnsolvedNotRaised ==
    sol.pc = "done" => sol.raised = "none"

----------------------------------------------------------------------------
(* Properties of solve_puzzle run twice (SpecTwice) *)

\* C17: two runs of solve_puzzle on equal grids end alike, whatever order
\* the sets are iterated in: when the second run has ended, it has raised
\* what the first run raised and every cell has the candidate set the first
\* run left in it.
C17_SolveDeterministic ==
    (SecondSolve /\ sol.pc = "done")
        => /\ sol.raised = op.raised
           /\ Contents(puzzle.matrix) = Contents(op.before)

----------------------------------------------------------------------------
(* Properties of the generator's retries and backtracking (SpecFill) *)

\* every cell of the grid that is not immutable is empty
MutableCellsEmpty(pz) ==
    \A i \in DOMAIN pz.matrix : ~pz.matrix[i].immutable => Cell_empty(pz.matrix[i])

\* place_value(val, 1) has returned FAILED to fill()
RootFailed == gen.pc = "ret" /\ gen.stack = <<>> /\ gen.status = "FAILED"

\* C16: when place_value(val, 1) returns FAILED to fill(), fill() clears
\* every non-immutable cell and then either starts the next attempt with the
\* first value, or, when the attempts are exhausted, returns FAILED without
\* an exception, every non-immutable cell being empty; it never makes more
\* than the bounded number of attempts.
C16_FillRetries ==
    /\ [](gen.attempt <= MaxAttempts)
    /\ [][RootFailed =>
             /\ MutableCellsEmpty(puzzle')
             /\ IF gen.attempt < MaxAttempts
                THEN /\ gen'.pc = "call"
                     /\ gen'.attempt = gen.attempt + 1
                     /\ gen'.val = 1 /\ gen'.box_num = 1 /\ gen'.stack = <<>>
                ELSE /\ gen'.pc = "done"
                     /\ gen'.status = "FAILED"]_vars
    /\ [](FillReturned("FAILED") => gen.attempt = MaxAttempts /\ MutableCellsEmpty(puzzle))

\* fill() has returned FAILED after its last attempt, on a grid with clues
C16_Witness ==
    /\ FillReturned("FAILED")
    /\ gen.attempt = MaxAttempts
    /\ \E i \in DOMAIN puzzle.matrix : puzzle.matrix[i].immutable
    /\ \E i \in DOMAIN puzzle.matrix : ~puzzle.matrix[i].immutable

\* the frame of the place_value call that resumes when its call for the
\* next box has returned
Caller == gen.stack[Len(gen.stack)]

\* the call place_value(value, box_num + 1) has returned FAILED to the
\* place_value call of a box
CallFailed == gen.pc = "ret" /\ gen.stack # <<>> /\ gen.status = "FAILED"

\* the eligible cells of the caller's box not yet tried
Untried == IF Caller.kind = "loop" THEN Caller.cells \ {Caller.cell} ELSE {}

\* C18: when the call of place_value for box b + 1 returns FAILED, the cell
\* assigned in box b is emptied again and no other cell changes; with the
\* returned distance decremented to zero, the eligible cells of box b not yet
\* tried are tried next; with any other decremented distance, FAILED is
\* returned upward with that distance and no cell of box b is tried.
C18_BacktrackDistance ==
    [][CallFailed =>
          LET distance == gen.backup_count - 1
              below == SubSeq(gen.stack, 1, Len(gen.stack) - 1)
          IN  /\ IF Caller.kind = "loop"
                 THEN /\ Cell_empty(puzzle'.matrix[Caller.cell])
                      /\ \A i \in DOMAIN puzzle.matrix \ {Caller.cell} :
                            puzzle'.matrix[i] = puzzle.matrix[i]
                 ELSE puzzle' = puzzle
              /\ (distance = 0 /\ Untried # {})
                    => /\ gen'.pc = "loop"
                       /\ Len(gen'.stack) = Len(gen.stack)
                       /\ gen'.stack[Len(gen.stack)].box_num = Caller.box_num
                       /\ gen'.stack[Len(gen.stack)].cells = Untried
              /\ distance # 0
                    => /\ gen'.pc = "ret"
                       /\ gen'.status = "FAILED"
                       /\ gen'.backup_count = distance
                       /\ gen'.stack = below]_vars

\* a call has failed with a distance that is not zero after the decrement,
\* and the caller's box has eligible cells not yet tried
C18_Witness ==
    /\ CallFailed
    /\ gen.backup_count - 1 # 0
    /\ Untried # {}

\* a call has failed with a distance that is zero after the decrement, and
\* the caller's box has eligible cells not yet tried
C18_WitnessRetry ==
    /\ CallFailed
    /\ gen.backup_count - 1 = 0
    /\ Untried # {}

\* place_value is called for a box that has no eligible cell
NoEligibleCell ==
    /\ gen.pc = "call"
    /\ eligible_box_cells(puzzle, gen.box_num, Value).raised = "none"
    /\ eligible_box_cells(puzzle, gen.box_num, Value).cells = {}

\* the last eligible cell of the caller's box has been tried: the call for
\* the next box failed, with a distance that leaves the retry to this box
Exhausted ==
    /\ CallFailed
    /\ Caller.kind = "loop"
    /\ gen.backup_count - 1 = 0
    /\ Untried = {}

\* the box-row-aware distance of a failure in box b
BoxRowDistance(b) ==
    IF b % puzzle.box_dimension = 1 THEN puzzle.box_dimension ELSE 1

\* C19: when place_value(value, b) fails because box b has no eligible
\* cell, or because every eligible cell of box b has been tried without
\* success, it returns FAILED with the distance box_dimension if
\* b mod box_dimension = 1 and 1 otherwise.
C19_FailureDistance ==
    /\ [][NoEligibleCell =>
             /\ gen'.pc = "ret"
             /\ gen'.status = "FAILED"
             /\ gen'.backup_count = BoxRowDistance(gen.box_num)
             /\ gen'.stack = gen.stack]_vars
    /\ [][Exhausted =>
             /\ gen'.pc = "ret"
             /\ gen'.status = "FAILED"
             /\ gen'.backup_count = BoxRowDistance(Caller.box_num)
             /\ gen'.stack = SubSeq(gen.stack, 1, Len(gen.stack) - 1)]_vars

\* every eligible cell of a box that starts a box-row has been tried
C19_Witness ==
    /\ Exhausted
    /\ puzzle.box_dimension > 1
    /\ Caller.box_num % puzzle.box_dimension = 1

\* a box that starts a box-row has no eligible cell
C19_WitnessNoCell ==
    /\ NoEligibleCell
    /\ puzzle.box_dimension > 1
    /\ gen.box_num % puzzle.box_dimension = 1

\* the box place_value is called for holds the value in one of its cells
BoxHoldsValue ==
    /\ gen.pc = "call"
    /\ get_context_iterator(puzzle, "BOX", gen.box_num).raised = "StopIteration"
    /\ \E k \in Range(get_context_iterator(puzzle, "BOX", gen.box_num).cells) :
          Value \in puzzle.matrix[k].contents

\* no row, column or box holds a value in two cells: for each value, the
\* cells holding it have distinct row, column and box numbers
NoValueTwice ==
    \A value \in Range(puzzle.all_value_options) :
        LET held == {k \in DOMAIN puzzle.matrix : value \in puzzle.matrix[k].contents}
        IN  \A context \in ContextTypes :
               Cardinality({ContextNumber(puzzle.matrix[k], context) : k \in held})
                   = Cardinality(held)

\* C20: when the box already holds the value being placed, place_value
\* changes no cell and goes on to the next box (after the last box it
\* returns PASSED), and no cell of the box is tried for the value; so during
\* fill() on a grid with consistent clues no row, column or box holds a
\* value in two cells.
C20_NoDuplicates ==
    /\ [][BoxHoldsValue =>
             /\ puzzle' = puzzle
             /\ IF gen.box_num = puzzle.dimension
                THEN /\ gen'.pc = "ret"
                     /\ gen'.status = "PASSED"
                     /\ gen'.stack = gen.stack
                ELSE /\ gen'.pc = "call"
                     /\ gen'.box_num = gen.box_num + 1
                     /\ Len(gen'.stack) = Len(gen.stack) + 1
                     /\ gen'.stack[Len(gen'.stack)].cells = {}]_vars
    /\ [](NoValueTwice \/ ~CluesConsistent)

\* place_value has gone on to the next box past a box that holds the value
\* as a clue, on a grid with consistent clues where values have been placed
C20_Witness ==
    /\ CluesConsistent
    /\ gen.pc = "call"
    /\ gen.stack # <<>>
    /\ Caller.kind = "given"
    /\ \E i \in DOMAIN puzzle.matrix :
          ~puzzle.matrix[i].immutable /\ ~Cell_empty(puzzle.matrix[i])

----------------------------------------------------------------------------
(* Properties of the box wiring (SpecBuild) *)

\* cells i and j lie in the same box_dimension x box_dimension block
SameBlock(pz, i, j) ==
    /\ RowIndex(pz.dimension, j) \div pz.box_dimension
         = RowIndex(pz.dimension, i) \div pz.box_dimension
    /\ ColumnIndex(pz.dimension, j) \div pz.box_dimension
         = ColumnIndex(pz.dimension, i) \div pz.box_dimension

\* the upper-left cell of the block that holds cell i
UpperLeft(pz, i) ==
    At(pz.dimension,
       (RowIndex(pz.dimension, i) \div pz.box_dimension) * pz.box_dimension,
       (ColumnIndex(pz.dimension, i) \div pz.box_dimension) * pz.box_dimension)

\* C21: in the grid the builder returns, the box links followed from any
\* cell come back to it after passing once through exactly the cells of its
\* block; the cells of a block have one box number, different blocks have
\* different box numbers in 1..dimension, and get_first_cell_in_box(n) is the
\* upper-left cell of the block numbered n.
C21_BoxWiring ==
    build.status = "ok" =>
        /\ \A i \in DOMAIN puzzle.matrix :
              LET walk == ContextCells(puzzle.matrix, i, "BOX")
              IN  /\ walk.raised = "StopIteration"
                  /\ Distinct(walk.cells)
                  /\ Range(walk.cells) = {j \in DOMAIN puzzle.matrix : SameBlock(puzzle, i, j)}
        /\ \A i, j \in DOMAIN puzzle.matrix :
              (puzzle.matrix[i].box_number = puzzle.matrix[j].box_number)
                  <=> SameBlock(puzzle, i, j)
        /\ \A i \in DOMAIN puzzle.matrix :
              /\ puzzle.matrix[i].box_number \in 1..puzzle.dimension
              /\ get_first_cell_in_box(puzzle, puzzle.matrix[i].box_number)
                    = UpperLeft(puzzle, i)

----------------------------------------------------------------------------
(* Properties of the solver's stages (SpecSolve) *)

\* C22: between the calls solve_puzzle makes, and when it has returned,
\* every cell built from a clue is immutable and every other cell is
\* mutable: find_intersection_with_box and combo_reduction release only the
\* immutability they set themselves.
C22_ClueFlagPermanent ==
    sol.raised = "none" =>
        \A i \in DOMAIN puzzle.matrix : puzzle.matrix[i].immutable = IsClue(i)

\* the cells of the row or column find_intersection_with_box is called on
Line == Range(get_context_iterator(puzzle, sol.context, sol.number).cells)

\* the cells of the line that hold the value in the grid `matrix`, the
\* occurrence cells of the value
OccurrenceCells(matrix, value) ==
    {k \in Line : ~Cell_empty(matrix[k]) /\ value \in matrix[k].contents}

\* the occurrence cells of the value lie in one box
InOneBox(matrix, value) ==
    /\ OccurrenceCells(matrix, value) # {}
    /\ \A j, k \in OccurrenceCells(matrix, value) :
          matrix[j].box_number = matrix[k].box_number

\* in the grid `after`, the cells `cells` hold the value and no other
\* unsolved cell of their box does
OnlyInBox(after, cells, value) ==
    /\ \A k \in cells : value \in after[k].contents
    /\ \A k \in DOMAIN after :
          ( /\ k \notin cells
            /\ \E j \in cells : after[j].box_number = after[k].box_number
            /\ ~Cell_solved(after[k]) )
          => value \notin after[k].contents

UniquesContext == Range(get_context_iterator(puzzle, sol.context, sol.number).cells)

\* the cells of the context that hold the value when the call is made
HoldersOf(value) ==
    {k \in UniquesContext :
        ~Cell_empty(puzzle.matrix[k]) /\ value \in puzzle.matrix[k].contents}

\* the values held by exactly one cell of the context, that cell being
\* unsolved, when the call is made
UniqueValues ==
    {value \in Range(puzzle.all_value_options) :
        /\ Cardinality(HoldersOf(value)) = 1
        /\ \A k \in HoldersOf(value) : ~Cell_solved(puzzle.matrix[k])}

\* cells j and k share a row, a column or a box
InView(matrix, j, k) ==
    \/ matrix[j].row_number = matrix[k].row_number
    \/ matrix[j].column_number = matrix[k].column_number
    \/ matrix[j].box_number = matrix[k].box_number

\* C24: when resolve_uniques_in_context returns, every value that was held
\* by exactly one cell of the context when it was called, the cell being
\* unsolved, is the only candidate of that cell and is held by no other cell
\* of the cell's row, column and box; it returns True exactly when there was
\* such a value, that is when it assigned a cell.
C24_UniquesResolved ==
    [][(sol.pc = "uniques" /\ sol'.raised = "none") =>
          /\ \A value \in UniqueValues : \A cell \in HoldersOf(value) :
                /\ puzzle'.matrix[cell].contents = {value}
                /\ \A k \in DOMAIN puzzle.matrix \ {cell} :
                      InView(puzzle.matrix, cell, k)
                          => value \notin puzzle'.matrix[k].contents
          /\ (sol'.last.ret = "True") <=> (UniqueValues # {})
          /\ sol'.last.ret \in {"True", "False"}]_vars


----------------------------------------------------------------------------
(* Subset reduction: the subset sizes one call of combo_reduction works     *)
(* through.                                                                 *)

\* the values of the context held by two or more cells, with their cells
MultiValued(pz, context_type, context_number) ==
    cells_per_value_dict(pz, pz.matrix,
                         get_context_iterator(pz, context_type, context_number).cells,
                         2, 100)

\* combo_reduction's body for a combination find_combination2 returned
\* would change a cell: remove_all_but on the cells of the combination, or
\* remove_values_from_context on the other cells of the context
ComboChanges(pz, context_type, context_number, combo) ==
    LET reduced == RemoveAllBut(pz.matrix, combo.cells, combo.values)
        removal == remove_values_from_context(
                       SetImmutable([matrix |-> reduced, raised |-> "none"],
                                    combo.cells, TRUE),
                       get_context_iterator(WithMatrix(pz, reduced), context_type,
                                            context_number).cells,
                       Sorted(combo.values), FALSE)
    IN  removal.changed \/ reduced # pz.matrix

\* in the context there is a subject value held by exactly combo_size_max
\* cells for which find_combination2 returns a combination whose handling
\* changes a cell
Reducible(pz, context_type, context_number, combo_size_max) ==
    LET cells_per_value == MultiValued(pz, context_type, context_number)
    IN  /\ ~cells_per_value.is_none
        /\ \E subject_value \in DOMAIN cells_per_value.dict :
              /\ Cardinality(cells_per_value.dict[subject_value]) = combo_size_max
              /\ \E combo \in find_combination2(pz.matrix, cells_per_value.dict,
                                                subject_value) :
                    /\ combo.raised = "none"
                    /\ combo.values # {}
                    /\ ComboChanges(pz, context_type, context_number, combo)

\* the target sizes after 2 that lie below the bound: the number of values
\* held by two or more cells, minus 2
LaterSizes(pz, context_type, context_number) ==
    LET cells_per_value == MultiValued(pz, context_type, context_number)
    IN  IF cells_per_value.is_none THEN {}
        ELSE 3..(Cardinality(DOMAIN cells_per_value.dict) - 3)

\* C25: one call of combo_reduction works through increasing target sizes:
\* when it returns, the subject values held by exactly 3 cells, then 4, and
\* so on up to the bound (the number of multi-valued values minus 2) have
\* been handled as those held by 2 cells were, so no combination of such a
\* subject value is left whose handling would change a cell of the context.
C25_IncreasingSizes ==
    [][(sol.pc = "combo" /\ sol'.raised = "none") =>
          \A combo_size_max \in LaterSizes(puzzle', sol.context, sol.number) :
              ~Reducible(puzzle', sol.context, sol.number, combo_size_max)]_vars

----------------------------------------------------------------------------
(* The value a solver stage returns.                                        *)

\* the step is a call of find_intersection_with_box or of combo_reduction
\* that returns without an exception
StageCall == sol.pc \in {"intersect", "combo"} /\ sol'.raised = "none"

\* C26: find_intersection_with_box and combo_reduction report whether they
\* changed the grid: the call returns True when it removed a candidate from
\* some cell and False when it removed none.
C26_StageReportsChange ==
    [][StageCall =>
          sol'.last.ret = Ret(Contents(puzzle'.matrix) # Contents(puzzle.matrix))]_vars

----------------------------------------------------------------------------
(* The grid after fill_empty_cells_with_options and normalize.              *)

\* normalize has just returned
Normalized == sol.last.name = "normalize" /\ sol.raised = "none"

\* cell j holds one value, and a cell of its row, column or box holds that
\* value too
SharedValue(matrix, j) ==
    /\ CellLen(matrix[j]) = 1
    /\ \E k \in DOMAIN matrix \ {j} :
          InView(matrix, j, k) /\ matrix[j].contents \subseteq matrix[k].contents

\* C27: after fill_empty_cells_with_options and normalize on a grid whose
\* clues give no value twice in a row, column or box, the value of every
\* cell holding exactly one candidate, clue or reduced to one candidate by
\* the cascade, is held by no other cell of its row, column or box.
C27_NormalizedPeers ==
    (Normalized /\ CluesConsistent)
        => \A j \in DOMAIN puzzle.matrix : ~SharedValue(puzzle.matrix, j)

----------------------------------------------------------------------------
(* The grid place_value leaves when it fails.                               *)

\* the step is the return of FAILED by a call of place_value that placed a
\* cell or passed a box holding the value
ReturnsFailed ==
    /\ gen.pc = "ret" /\ gen.stack # <<>>
    /\ gen'.pc = "ret" /\ gen'.status = "FAILED"

\* the step is a call of place_value that finds no eligible cell
FailsAtOnce == gen.pc = "call" /\ gen'.pc = "ret" /\ gen'.status = "FAILED"

\* C28: whenever place_value(value, b) returns FAILED, every cell of the
\* grid has the contents it had when that call started: the values set in
\* box b and in the later boxes have been cleared.
C28_FailedRestores ==
    [][/\ ReturnsFailed => Contents(puzzle'.matrix) = Caller.before
       /\ FailsAtOnce => Contents(puzzle'.matrix) = Contents(puzzle.matrix)]_vars

\* on a grid without clues a call of place_value has returned FAILED after
\* it set the value in a cell of its box and called place_value for a later
\* box (gen.box_num, the box of the last call made, lies beyond its own)
C28_Witness ==
    /\ gen.pc = "ret"
    /\ gen.status = "FAILED"
    /\ gen.box_num > Len(gen.stack) + 1
    /\ \A i \in DOMAIN puzzle.matrix : ~IsClue(i)

----------------------------------------------------------------------------
(* Candidate sets over a run of solve_puzzle.                               *)

\* fill_empty_cells_with_options has run
OptionsFilled == sol.pc \notin {"idle", "start"}

\* no cell holds the empty set
NoCellEmptied == \A i \in DOMAIN puzzle.matrix : puzzle.matrix[i].contents # {}

\* every step narrows: no cell gains a candidate
Narrows ==
    \A i \in DOMAIN puzzle.matrix :
        puzzle'.matrix[i].contents \subseteq puzzle.matrix[i].contents

----------------------------------------------------------------------------
(* Peer consistency after the stages that follow normalize.                 *)

\* the step ends the pass of resolve_uniques_in_context over all contexts,
\* ends intersecting_context_resolution, or is a call of combo_reduction,
\* and raises nothing
StageReturns ==
    /\ \/ sol.pc = "uniques" /\ sol'.pc # "uniques"
       \/ sol.pc = "intersect" /\ sol'.pc # "intersect"
       \/ sol.pc = "combo"
    /\ sol'.raised = "none"

\* an unsolved cell holds the value of a solved cell of its row, column or box
HoldsSolvedPeerValue(matrix, k) ==
    /\ CellLen(matrix[k]) > 1
    /\ \E j \in DOMAIN matrix \ {k} :
          /\ CellLen(matrix[j]) = 1
          /\ InView(matrix, j, k)
          /\ matrix[j].contents \subseteq matrix[k].contents

\* C30: whenever the pass of unique resolution, intersecting_context_resolution
\* or a call of combo_reduction returns, no unsolved cell holds the value of
\* a solved cell that shares its row, column or box.
C30_PeerConsistency ==
    [][StageReturns =>
          \A k \in DOMAIN puzzle.matrix : ~HoldsSolvedPeerValue(puzzle'.matrix, k)]_vars

====
